---- MODULE Spec2Model ----
(***************************************************************************)
(* Notification hub backend (backend-go): the sliding-window rate limiter, *)
(* the endpoint-keyed subscription store, the application service, the    *)
(* HTTP handlers and the push dispatcher, as state machines.               *)
(*                                                                         *)
(* Strings are sequences of tokens; the token " " is a whitespace          *)
(* character, every other token a run of non-blank characters.             *)
(***************************************************************************)
EXTENDS Integers, Sequences, FiniteSets, TLC

(***************************************************************************)
(* Bounds of the model.                                                    *)
(***************************************************************************)
MaxTime == 3        \* the clock runs 0..MaxTime
MaxCalls == 4       \* Allow calls in one run of the limiter
RateLimit == 2      \* SUBSCRIBE_RATE_LIMIT used by the runs (N)
RateWindow == 2     \* SUBSCRIBE_RATE_WINDOW_SECONDS used by the runs (W)

QueueSize == 1      \* QUEUE_SIZE used by the runs
MaxRetries == 1     \* MAX_RETRIES used by the runs
MaxShift == 40      \* the largest attempt number given to backoffDuration
MaxLimit == 3       \* the largest MAX_RETRIES of the runs of one task on its own

IPs == {"ip1", "ip2"}
Callers == {"g1", "g2"}
Reqs == {1, 2}
Workers == {1, 2}
Enqueuers == {1}    \* the goroutines the triggers of one run start

NoCall == [key |-> "", now |-> -1]
NoAllow == [key |-> "", now |-> -1, ok |-> FALSE, before |-> <<>>, prior |-> 0, denied |-> 0]

VARIABLES
    clock,      \* time.Now(), in seconds
    limit,      \* Limiter.limit
    window,     \* Limiter.window
    attempts,   \* Limiter.attempts: key -> sequence of timestamps
    allowing,   \* per goroutine: the Allow call between time.Now() and mu.Lock()
    accepted,   \* history: the Allow calls that returned true, in lock order
    denials,    \* history: per key, the calls denied since the last accepted one
    calls,      \* history: the number of Allow calls started
    lastAllow   \* history: the Allow call that returned last

limiterVars == <<clock, limit, window, attempts>>
limiterHist == <<allowing, accepted, denials, calls, lastAllow>>

VARIABLES
    config,     \* config.Config: HubUICode, HubSecret, and whether the VAPID settings are complete
    rows,       \* the table push_subscriptions, a set of rows
    reqs,       \* per subscribe in progress: the handler's position and locals
    enq,        \* the goroutines started by `go dispatcher.EnqueueMany/Enqueue`: targets left
    queue,      \* Dispatcher.queue
    workers,    \* per dispatcher worker: position in sendWithRetry, task, attempt
    watch,      \* the operation whose responses the run observes ("" for none)
    lastResp,   \* history: the response just written by an observed operation
    lastSub,    \* history: per endpoint, the last successful subscribe and its response
    check,      \* the last credential check made and its result
    proc        \* the process: how far main() has come, and whether it panicked

hubVars == <<rows, reqs, enq, queue, workers, watch, lastResp, lastSub, proc>>

vars == <<limiterVars, limiterHist, config, hubVars, check>>

(***************************************************************************)
(* ratelimit.New: the clamps of the constructor.                           *)
(***************************************************************************)
NewLimit(n) == IF n < 1 THEN 1 ELSE n

NewWindow(w) == IF w <= 0 THEN 60 ELSE w

(***************************************************************************)
(* Limiter.Allow, the part under the mutex.                                *)
(***************************************************************************)
\* timestamp.After(cutoff)
After(timestamp, cutoff) == timestamp > cutoff

\* the loop of lines 39-44: keep the timestamps after the cutoff, in order
Prune(recent, cutoff) == SelectSeq(recent, LAMBDA timestamp : After(timestamp, cutoff))

\* a limiter that lets one attempt too many through
Denied_Mut(pruned, lim) == Len(pruned) > lim

\* line 46
Denied(pruned, lim) == Len(pruned) >= lim

\* a limiter that also counts the attempts it rejects
RecordDenied_Mut(pruned, now) == Append(pruned, now)

\* line 47: what a denied attempt stores
RecordDenied(pruned, now) == pruned

\* line 51: what an accepted attempt stores
RecordAllowed(pruned, now) == Append(pruned, now)

\* the list stored for the key by a call that read `now`
AllowStore(recent, now, lim, win) ==
    LET pruned == Prune(recent, now - win)
    IN  IF Denied(pruned, lim) THEN RecordDenied(pruned, now)
        ELSE RecordAllowed(pruned, now)

\* the value the call returns
AllowResult(recent, now, lim, win) == ~Denied(Prune(recent, now - win), lim)

(***************************************************************************)
(* Actions of the limiter.                                                 *)
(***************************************************************************)
Tick ==
    /\ clock < MaxTime
    /\ clock' = clock + 1
    /\ UNCHANGED <<limit, window, attempts, limiterHist, config, hubVars, check>>

\* lines 32-33: now := time.Now(), before the lock is taken
AllowBegin(g, key) ==
    /\ allowing[g] = NoCall
    /\ calls < MaxCalls
    /\ calls' = calls + 1
    /\ allowing' = [allowing EXCEPT ![g] = [key |-> key, now |-> clock]]
    /\ UNCHANGED <<limiterVars, accepted, denials, lastAllow, config, hubVars, check>>

\* lines 35-53: the body under limiter.mu
AllowCommit(g) ==
    /\ allowing[g] # NoCall
    /\ LET key == allowing[g].key
           now == allowing[g].now
           recent == attempts[key]
           ok == AllowResult(recent, now, limit, window)
       IN  /\ attempts' = [attempts EXCEPT ![key] = AllowStore(recent, now, limit, window)]
           /\ accepted' = IF ok THEN Append(accepted, [key |-> key, now |-> now, end |-> clock])
                          ELSE accepted
           /\ denials' = [denials EXCEPT ![key] = IF ok THEN 0 ELSE @ + 1]
           /\ lastAllow' = [key |-> key, now |-> now, ok |-> ok, before |-> recent,
                            prior |-> Len(accepted), denied |-> denials[key]]
    /\ allowing' = [allowing EXCEPT ![g] = NoCall]
    /\ UNCHANGED <<clock, limit, window, calls, config, hubVars, check>>

(***************************************************************************)
(* Strings: strings.TrimSpace and the domain's topic normalisation.        *)
(***************************************************************************)
IsSpace(token) == token = " "

RECURSIVE TrimLeft(_)
TrimLeft(str) ==
    IF str # <<>> /\ IsSpace(Head(str)) THEN TrimLeft(Tail(str)) ELSE str

RECURSIVE TrimRight(_)
TrimRight(str) ==
    IF str # <<>> /\ IsSpace(str[Len(str)])
    THEN TrimRight(SubSeq(str, 1, Len(str) - 1))
    ELSE str

\* strings.TrimSpace
TrimSpace(str) == TrimRight(TrimLeft(str))

\* domain.DefaultTopic
DefaultTopic == <<"default">>

\* a normalisation that forgets the default
NormalizeTopic_Mut(topic) == topic

\* domain.NormalizeTopic
NormalizeTopic(topic) == IF topic = <<>> THEN DefaultTopic ELSE topic

(***************************************************************************)
(* service: credential checks.                                             *)
(***************************************************************************)
\* subtle.ConstantTimeCompare on two byte strings: 1 when they have the same
\* length and no position differs
ConstantTimeCompare(x, y) ==
    IF Len(x) # Len(y) THEN 0
    ELSE IF Cardinality({i \in DOMAIN x : x[i] # y[i]}) = 0 THEN 1 ELSE 0

\* a comparison that forgets to fail closed on empty values
secureCompare_Mut(expected, actual) == ConstantTimeCompare(expected, actual) = 1

\* secureCompare
secureCompare(expected, actual) ==
    IF Len(expected) = 0 \/ Len(actual) = 0 THEN FALSE
    ELSE IF Len(expected) # Len(actual) THEN FALSE
    ELSE ConstantTimeCompare(expected, actual) = 1

\* a hub that takes every access code
ValidateUICode_Mut(cfg, code) == TRUE

\* Service.ValidateUICode
ValidateUICode(cfg, code) == secureCompare(cfg.HubUICode, code)

\* Service.ValidateHubSecret
ValidateHubSecret(cfg, secret) == secureCompare(cfg.HubSecret, secret)

(***************************************************************************)
(* The subscription store (store.Postgres on table push_subscriptions).    *)
(***************************************************************************)
\* SELECT EXISTS(SELECT 1 FROM push_subscriptions WHERE endpoint = $1)
RowExists(tbl, endpoint) == \E row \in tbl : row.endpoint = endpoint

\* the row an INSERT adds: created_at is given, updated_at takes DEFAULT NOW()
InsertedRow(sub, now) ==
    [endpoint |-> sub.Endpoint, p256dh |-> sub.P256DH, auth |-> sub.Auth,
     topics |-> sub.Topics, created_at |-> now, updated_at |-> now]

\* an update that writes the whole row anew, created_at included
UpdatedRow_Mut(row, sub, now) ==
    [endpoint |-> sub.Endpoint, p256dh |-> sub.P256DH, auth |-> sub.Auth,
     topics |-> sub.Topics, created_at |-> now, updated_at |-> now]

\* an update that replaces the credentials and keeps the topics of the row
UpdatedRow_Keep(row, sub, now) ==
    [row EXCEPT !.p256dh = sub.P256DH, !.auth = sub.Auth, !.updated_at = now]

\* DO UPDATE SET p256dh, auth, topics = EXCLUDED.*, updated_at = NOW()
UpdatedRow(row, sub, now) ==
    [row EXCEPT !.p256dh = sub.P256DH, !.auth = sub.Auth,
                !.topics = sub.Topics, !.updated_at = now]

\* an upsert whose conflict target also names the topics, so a registration
\* for another topic is inserted next to the old row
Conflicts_Mut(row, sub) == row.endpoint = sub.Endpoint /\ row.topics = sub.Topics

\* ON CONFLICT (endpoint), the primary key of the table
Conflicts(row, sub) == row.endpoint = sub.Endpoint

\* INSERT ... ON CONFLICT (endpoint) DO UPDATE ...
UpsertExec(tbl, sub, now) ==
    IF \E row \in tbl : Conflicts(row, sub)
    THEN {IF Conflicts(row, sub) THEN UpdatedRow(row, sub, now) ELSE row : row \in tbl}
    ELSE tbl \cup {InsertedRow(sub, now)}

\* a delete that removes nothing
DeleteByEndpoint_Mut(tbl, endpoint) == tbl

\* Postgres.DeleteByEndpoint: DELETE FROM push_subscriptions WHERE endpoint = $1
DeleteByEndpoint(tbl, endpoint) == {row \in tbl : row.endpoint # endpoint}

\* Postgres.GetTopicsByEndpoint: (topics, found); QueryRow takes the first row
GetTopicsByEndpoint(tbl, endpoint) ==
    IF RowExists(tbl, endpoint)
    THEN [topics |-> (CHOOSE row \in tbl : row.endpoint = endpoint).topics, found |-> TRUE]
    ELSE [topics |-> <<>>, found |-> FALSE]

\* the domain.Subscription scanned from a row
ScanSubscription(row) ==
    [Endpoint |-> row.endpoint, P256DH |-> row.p256dh, Auth |-> row.auth, Topics |-> row.topics]

NoSubscription == [Endpoint |-> <<>>, P256DH |-> <<>>, Auth |-> <<>>, Topics |-> <<>>]

\* Postgres.GetSubscriptionByEndpoint: (subscription, found)
GetSubscriptionByEndpoint(tbl, endpoint) ==
    IF RowExists(tbl, endpoint)
    THEN [subscription |-> ScanSubscription(CHOOSE row \in tbl : row.endpoint = endpoint),
          found |-> TRUE]
    ELSE [subscription |-> NoSubscription, found |-> FALSE]

\* WHERE $1 = ANY(topics)
HasTopic(row, topic) == \E i \in DOMAIN row.topics : row.topics[i] = topic

\* every order in which the rows of a set can be returned
Orders(set) ==
    {seq \in [1..Cardinality(set) -> set] : \A i, j \in DOMAIN seq : i # j => seq[i] # seq[j]}

\* Postgres.ListForTopic: the matching rows, in any order (no ORDER BY)
ListForTopic(tbl, topic) ==
    {[i \in DOMAIN seq |-> ScanSubscription(seq[i])] :
        seq \in Orders({row \in tbl : HasTopic(row, topic)})}

(***************************************************************************)
(* service: the fixed self-test payload and the subscriptions_me answer.   *)
(***************************************************************************)
\* an answer that takes a missing row for a subscription without topics
SubscriptionsMe_Mut(tbl, endpoint) ==
    [status |-> "active", topics |-> GetTopicsByEndpoint(tbl, endpoint).topics]

\* Service.SubscriptionsMe on a store that answers
SubscriptionsMe(tbl, endpoint) ==
    LET got == GetTopicsByEndpoint(tbl, endpoint)
    IN  IF ~got.found THEN [status |-> "inactive", topics |-> <<>>]
        ELSE [status |-> "active", topics |-> got.topics]

\* json.Marshal of the title/body/url map
Marshal(title, body, url) == [title |-> title, body |-> body, url |-> url]

\* the payload of Service.TriggerSelf
SelfTestPayload ==
    Marshal(<<"Test notification">>, <<"Your Notification Hub is wired up.">>, <<"/">>)

(***************************************************************************)
(* httpapi: request parsing.                                               *)
(***************************************************************************)
\* firstNonEmpty of two values
firstNonEmpty(a, b) ==
    IF TrimSpace(a) # <<>> THEN TrimSpace(a)
    ELSE IF TrimSpace(b) # <<>> THEN TrimSpace(b)
    ELSE <<>>

\* buildSubscription, the three fields it settles on
BuildFields(request) ==
    LET nested == request.Subscription.present
        e0 == IF nested THEN TrimSpace(request.Subscription.Endpoint) ELSE <<>>
        p0 == IF nested THEN TrimSpace(request.Subscription.Keys.P256DH) ELSE <<>>
        a0 == IF nested THEN TrimSpace(request.Subscription.Keys.Auth) ELSE <<>>
    IN  [Endpoint |-> IF e0 = <<>> THEN TrimSpace(request.Endpoint) ELSE e0,
         P256DH |-> IF p0 = <<>>
                    THEN TrimSpace(firstNonEmpty(request.P256DH, request.Keys.P256DH))
                    ELSE p0,
         Auth |-> IF a0 = <<>>
                  THEN TrimSpace(firstNonEmpty(request.Auth, request.Keys.Auth))
                  ELSE a0]

\* buildSubscription: (subscription, ok)
buildSubscription(request, topic) ==
    LET f == BuildFields(request)
    IN  IF f.Endpoint = <<>> \/ f.P256DH = <<>> \/ f.Auth = <<>>
        THEN [subscription |-> NoSubscription, ok |-> FALSE]
        ELSE [subscription |-> [Endpoint |-> f.Endpoint, P256DH |-> f.P256DH,
                                Auth |-> f.Auth, Topics |-> <<topic>>],
              ok |-> TRUE]

\* the endpoint Handlers.unsubscribe settles on: the flat field, else the nested one
UnsubscribeEndpoint(request) ==
    LET flat == TrimSpace(request.Endpoint)
    IN  IF flat = <<>> /\ request.Subscription.present
        THEN TrimSpace(request.Subscription.Endpoint)
        ELSE flat

\* isDryRun: the dry_run query value, trimmed and lower-cased
ToLower(str) ==
    [i \in DOMAIN str |->
        CASE str[i] = "TRUE" -> "true"
          [] str[i] = "True" -> "true"
          [] str[i] = "YES" -> "yes"
          [] OTHER -> str[i]]

isDryRun(query) ==
    LET value == ToLower(TrimSpace(query))
    IN  value = <<"true">> \/ value = <<"1">> \/ value = <<"yes">>

\* optionalString
optionalString(value) == IF ~value.set THEN <<>> ELSE value.value

(***************************************************************************)
(* Requests the clients send.                                              *)
(***************************************************************************)
Endpoints == {<<"e1">>, <<"e2">>}
EndpointInputs == Endpoints \cup {<<>>, <<" ", "e1", " ">>}
KeyInputs == {<<"k1">>}
AuthInputs == {<<"a1">>}
TopicInputs == {<<>>, <<"news">>}
CodeInputs == {<<>>, <<"abc">>, <<"bad">>}
SecretInputs == {<<>>, <<"S">>, <<"bad">>}
DryRunInputs == {<<>>, <<"1">>, <<" ", "TRUE">>, <<"no">>}
HubIPs == {"ip1"}

NoKeys == [P256DH |-> <<>>, Auth |-> <<>>]

\* pointers of the request structs: nil, or a value
Nil == [set |-> FALSE, value |-> <<>>]
Ptr(value) == [set |-> TRUE, value |-> value]
Pointers(values) == {Nil} \cup {Ptr(value) : value \in values}

\* subscribeRequest.Subscription: nil, or the nested object
NilSubscription == [present |-> FALSE, Endpoint |-> <<>>, Keys |-> NoKeys]

\* POST /api/subscribe bodies: the nested shape, the flat shape, and one that
\* does not decode
NestedSubscribes ==
    {[decodes |-> TRUE, ip |-> ip, UICode |-> code, Topic |-> topic,
      Subscription |-> [present |-> TRUE, Endpoint |-> e,
                        Keys |-> [P256DH |-> k, Auth |-> a]],
      Endpoint |-> <<>>, P256DH |-> <<>>, Auth |-> <<>>, Keys |-> NoKeys] :
        ip \in HubIPs, code \in CodeInputs, topic \in TopicInputs,
        e \in EndpointInputs, k \in KeyInputs, a \in AuthInputs}

FlatSubscribes ==
    {[decodes |-> TRUE, ip |-> ip, UICode |-> code, Topic |-> topic,
      Subscription |-> NilSubscription,
      Endpoint |-> e, P256DH |-> k, Auth |-> <<>>, Keys |-> [P256DH |-> <<>>, Auth |-> a]] :
        ip \in HubIPs, code \in CodeInputs, topic \in TopicInputs,
        e \in EndpointInputs, k \in KeyInputs, a \in AuthInputs}

UndecodableSubscribes ==
    {[decodes |-> FALSE, ip |-> ip, UICode |-> <<>>, Topic |-> <<>>,
      Subscription |-> NilSubscription,
      Endpoint |-> <<>>, P256DH |-> <<>>, Auth |-> <<>>, Keys |-> NoKeys] : ip \in HubIPs}

SubscribeRequests == NestedSubscribes \cup FlatSubscribes \cup UndecodableSubscribes

\* POST /api/unsubscribe bodies
UnsubscribeRequests ==
    {[decodes |-> TRUE, Endpoint |-> e, Subscription |-> NilSubscription] :
        e \in EndpointInputs}
    \cup {[decodes |-> TRUE, Endpoint |-> <<>>,
           Subscription |-> [present |-> TRUE, Endpoint |-> e, Keys |-> NoKeys]] :
              e \in EndpointInputs}
    \cup {[decodes |-> FALSE, Endpoint |-> <<>>, Subscription |-> NilSubscription]}

\* POST /api/trigger requests: the X-Hub-Secret header, the body, ?dry_run=
TriggerRequests ==
    {[secret |-> secret, decodes |-> TRUE, Title |-> title, Body |-> Ptr(<<"B">>),
      URL |-> Ptr(<<"/x">>), Topic |-> topic, dry_run |-> dry] :
        secret \in SecretInputs, title \in Pointers({<<"T">>}),
        topic \in Pointers(TopicInputs), dry \in DryRunInputs}
    \cup {[secret |-> secret, decodes |-> FALSE, Title |-> Nil, Body |-> Nil,
           URL |-> Nil, Topic |-> Nil, dry_run |-> <<>>] : secret \in SecretInputs}

\* POST /api/trigger-self bodies
TriggerSelfRequests ==
    {[decodes |-> TRUE, UICode |-> code, Endpoint |-> e] :
        code \in Pointers(CodeInputs), e \in Pointers(Endpoints)}
    \cup {[decodes |-> FALSE, UICode |-> Nil, Endpoint |-> Nil]}

\* what webpush.SendNotification can come back with
Outcomes == {"error", "201", "410", "503", "404"}

(***************************************************************************)
(* Request slots, responses, tasks.                                        *)
(***************************************************************************)
NoResp == [code |-> 0, error |-> "", status |-> "", topics |-> <<>>, topic |-> <<>>,
           targets |-> 0, dry_run |-> FALSE]

\* writeJSON(writer, status, {"error": kind})
ErrorResp(code, kind) == [NoResp EXCEPT !.code = code, !.error = kind]

NoPrev == [sub |-> NoSubscription, resp |-> NoResp]

\* what the history keeps of a request next to its response: the endpoint it
\* names, the subscription it registers, the topic, the secret and the dry-run
\* flag as sent, whether the endpoint had a row when the request arrived,
\* whether another writer touched that endpoint's row while the request ran,
\* the number of store statements the request issued, the topics of the row
\* an upsert replaced, and the last successful subscribe of the endpoint
\* before this one
NoNote == [endpoint |-> <<>>, sub |-> NoSubscription, topic |-> <<>>, secret |-> <<>>,
           dry |-> FALSE, had |-> FALSE, overlap |-> FALSE, stmts |-> 0,
           replaced |-> <<>>, prev |-> NoPrev]

NoLast == [op |-> "", resp |-> NoResp, note |-> NoNote]

IdleReq == [pc |-> "idle", sub |-> NoSubscription, exists |-> FALSE, note |-> NoNote]

NoTask == [subscription |-> NoSubscription, payload |-> Marshal(<<>>, <<>>, <<>>)]

\* the webpush.Subscription of a transmission
NoTarget == [Endpoint |-> <<>>, P256dh |-> <<>>, Auth |-> <<>>]

\* a worker; for the history, what its last attempt was addressed to, and
\* after a 410: whether the endpoint had a row when the deletion ran, whether
\* the deletion succeeded, the rows it removed, and whether a subscribe
\* wrote the endpoint's row since
IdleWorker == [pc |-> "idle", task |-> NoTask, attempt |-> 0, status |-> "",
               used |-> NoTarget,
               had |-> FALSE, deleted |-> FALSE, removed |-> {}, rewritten |-> FALSE]

\* the response of a request, when the run observes its operation
Record(op, resp, note) ==
    IF watch = op THEN [op |-> op, resp |-> resp, note |-> note] ELSE NoLast

\* no response is waiting to be read
Quiet == lastResp = NoLast

\* main() from dispatcher.Start() on: the phase it is in ("serving" until the
\* signal, "shutdown" once server.Shutdown has returned, "closed" once Stop
\* has closed the queue, "stopped" once Stop has returned and main with it,
\* "crashed" after a panic); for the history, the tasks queued or in flight
\* when Stop was called
Started == [phase |-> "serving", atStop |-> 0]

\* the server accepts requests
Serving == proc.phase = "serving"

\* the process is alive
Running == proc.phase \in {"serving", "shutdown", "closed"}

\* close(dispatcher.queue) has run
Closed == proc.phase = "closed"

\* the response of the observed operation is read; the history forgets it
Observe ==
    /\ lastResp # NoLast
    /\ lastResp' = NoLast
    /\ UNCHANGED <<limiterVars, limiterHist, config, rows, reqs, enq, queue, workers, watch,
                   lastSub, check, proc>>

\* another writer changed the row of `endpoint`: the subscribes in progress on
\* that endpoint no longer run alone
MarkRequests(slots, self, endpoint) ==
    [r \in Reqs |->
        IF r # self /\ slots[r].pc # "idle" /\ slots[r].note.endpoint = endpoint
        THEN [slots[r] EXCEPT !.note.overlap = TRUE]
        ELSE slots[r]]

\* a subscribe wrote the row of `endpoint`: the workers that deleted it for a
\* 410 and have not yet completed no longer leave it absent
MarkWorkers(pool, endpoint) ==
    [w \in Workers |->
        IF pool[w].pc = "done" /\ pool[w].task.subscription.Endpoint = endpoint
        THEN [pool[w] EXCEPT !.rewritten = TRUE]
        ELSE pool[w]]

(***************************************************************************)
(* POST /api/subscribe (Handlers.subscribe), one action per shared access. *)
(***************************************************************************)
\* lines 98-114 of the handler: what the request is answered once the limiter
\* let it pass and before the store is asked; code 0 when it goes on
SubscribeEarly(cfg, request) ==
    IF ~request.decodes THEN ErrorResp(422, "invalid_subscription")
    ELSE IF ~ValidateUICode(cfg, request.UICode) THEN ErrorResp(401, "invalid_access_code")
    ELSE IF ~buildSubscription(request, NormalizeTopic(request.Topic)).ok
         THEN ErrorResp(422, "invalid_subscription")
    ELSE NoResp

\* an upsert that reports an update as a creation and a creation as an update
Created_Mut(exists) == exists

\* Postgres.UpsertSubscription, line 47: return !exists
Created(exists) == ~exists

\* a handler that reports a subscription it has stored as a failure
SubscribeResp_Mut(created, sub) == ErrorResp(500, "internal_error")

\* writeJSON(writer, statusCode, {"status": "active", "topics": subscription.Topics})
SubscribeResp(created, sub) ==
    [NoResp EXCEPT !.code = IF created THEN 201 ELSE 200,
                   !.status = "active", !.topics = sub.Topics]

\* requestIP and Limiter.Allow, then lines 93-114 of the handler.  time.Now()
\* and the locked section of Allow are one step here; SpecLimiter takes them
\* apart.
SubscribeAllow(r, request) ==
    /\ Quiet
    /\ Serving
    /\ reqs[r].pc = "idle"
    /\ \A other \in Reqs : reqs[other].pc = "idle" => r <= other
    /\ LET recent == attempts[request.ip]
           allowed == AllowResult(recent, clock, limit, window)
           built == buildSubscription(request, NormalizeTopic(request.Topic))
           early == SubscribeEarly(config, request)
           sub == IF allowed /\ early.code = 0 THEN built.subscription ELSE NoSubscription
           note == IF watch = "subscribe"
                   THEN [NoNote EXCEPT !.endpoint = sub.Endpoint, !.sub = sub,
                                       !.topic = request.Topic,
                                       !.had = RowExists(rows, sub.Endpoint)]
                   ELSE [NoNote EXCEPT !.endpoint = sub.Endpoint]
       IN  /\ attempts' = [attempts EXCEPT
                               ![request.ip] = AllowStore(recent, clock, limit, window)]
           /\ reqs' = [reqs EXCEPT ![r] =
                  IF allowed /\ early.code = 0
                  THEN [IdleReq EXCEPT !.pc = "exists", !.sub = sub, !.note = note]
                  ELSE IdleReq]
           /\ lastResp' =
                  IF ~allowed THEN Record("subscribe", ErrorResp(429, "rate_limited"), note)
                  ELSE IF early.code # 0 THEN Record("subscribe", early, note)
                  ELSE NoLast
    /\ UNCHANGED <<clock, limit, window, limiterHist, config, rows, enq, queue, workers,
                   watch, lastSub, check, proc>>

\* Postgres.UpsertSubscription, the existence query
SubscribeExists(r, fails) ==
    /\ Quiet
    /\ Running
    /\ reqs[r].pc = "exists"
    /\ LET slot == reqs[r]
           note == [slot.note EXCEPT !.stmts = IF watch = "subscribe" THEN 1 ELSE 0]
       IN  /\ reqs' = [reqs EXCEPT ![r] =
                  IF fails THEN IdleReq
                  ELSE [slot EXCEPT !.pc = "upsert", !.note = note,
                                    !.exists = RowExists(rows, slot.sub.Endpoint)]]
           /\ lastResp' =
                  IF fails THEN Record("subscribe", ErrorResp(500, "internal_error"), note)
                  ELSE NoLast
    /\ UNCHANGED <<limiterVars, limiterHist, config, rows, enq, queue, workers, watch,
                   lastSub, check, proc>>

\* Postgres.UpsertSubscription, the upsert statement; then lines 116-128
SubscribeUpsert(r, fails) ==
    /\ Quiet
    /\ Running
    /\ reqs[r].pc = "upsert"
    /\ LET slot == reqs[r]
           sub == slot.sub
           resp == SubscribeResp(Created(slot.exists), sub)
           note == [slot.note EXCEPT
                       !.stmts = 2,
                       !.replaced = GetTopicsByEndpoint(rows, sub.Endpoint).topics,
                       !.prev = lastSub[sub.Endpoint]]
       IN  IF fails
           THEN /\ reqs' = [reqs EXCEPT ![r] = IdleReq]
                /\ lastResp' = Record("subscribe", ErrorResp(500, "internal_error"), note)
                /\ UNCHANGED <<rows, workers, lastSub>>
           ELSE /\ rows' = UpsertExec(rows, sub, clock)
                /\ reqs' = [(IF watch = "subscribe"
                             THEN MarkRequests(reqs, r, sub.Endpoint)
                             ELSE reqs) EXCEPT ![r] = IdleReq]
                /\ workers' = MarkWorkers(workers, sub.Endpoint)
                /\ lastResp' = Record("subscribe", resp, note)
                /\ lastSub' = IF watch = "subscribe"
                              THEN [lastSub EXCEPT ![sub.Endpoint] =
                                       [sub |-> sub, resp |-> resp]]
                              ELSE lastSub
    /\ UNCHANGED <<limiterVars, limiterHist, config, enq, queue, watch, check, proc>>

(***************************************************************************)
(* POST /api/unsubscribe and GET /api/subscriptions/me.                    *)
(***************************************************************************)
\* a handler that reports an endpoint without a row as not found
UnsubscribeResp_Mut(had) ==
    IF had THEN [NoResp EXCEPT !.code = 200, !.status = "inactive"]
    ELSE ErrorResp(404, "not_found")

\* Handlers.unsubscribe, line 153: the answer once the delete has returned
\* nil, whether it removed a row or not
UnsubscribeResp(had) == [NoResp EXCEPT !.code = 200, !.status = "inactive"]

\* Handlers.unsubscribe with Service.Unsubscribe
Unsubscribe(request, fails) ==
    /\ Quiet
    /\ Serving
    /\ LET endpoint == UnsubscribeEndpoint(request)
           note == [NoNote EXCEPT !.endpoint = endpoint, !.had = RowExists(rows, endpoint)]
       IN  IF ~request.decodes \/ endpoint = <<>>
           THEN /\ lastResp' = Record("unsubscribe", ErrorResp(422, "missing_endpoint"), note)
                /\ UNCHANGED <<rows, reqs>>
           ELSE IF fails
           THEN /\ lastResp' = Record("unsubscribe", ErrorResp(500, "internal_error"),
                                      [note EXCEPT !.stmts = 1])
                /\ UNCHANGED <<rows, reqs>>
           ELSE /\ rows' = DeleteByEndpoint(rows, endpoint)
                /\ reqs' = IF watch = "subscribe" THEN MarkRequests(reqs, 0, endpoint)
                           ELSE reqs
                /\ lastResp' = Record("unsubscribe",
                                      UnsubscribeResp(RowExists(rows, endpoint)),
                                      [note EXCEPT !.stmts = 1])
    /\ UNCHANGED <<limiterVars, limiterHist, config, enq, queue, workers, watch, lastSub,
                   check, proc>>

\* Handlers.subscriptionMe with Service.SubscriptionsMe
SubscriptionMe(query, fails) ==
    /\ Quiet
    /\ Serving
    /\ LET endpoint == TrimSpace(query)
           note == [NoNote EXCEPT !.endpoint = endpoint, !.had = RowExists(rows, endpoint)]
           me == SubscriptionsMe(rows, endpoint)
       IN  lastResp' =
               IF endpoint = <<>>
               THEN Record("me", [NoResp EXCEPT !.code = 200, !.status = "inactive"], note)
               ELSE IF fails
               THEN Record("me", ErrorResp(500, "internal_error"), [note EXCEPT !.stmts = 1])
               ELSE Record("me", [NoResp EXCEPT !.code = 200, !.status = me.status,
                                                !.topics = me.topics],
                           [note EXCEPT !.stmts = 1])
    /\ UNCHANGED <<limiterVars, limiterHist, config, rows, reqs, enq, queue, workers, watch,
                   lastSub, check, proc>>

(***************************************************************************)
(* POST /api/trigger and POST /api/trigger-self.                           *)
(***************************************************************************)
\* an EnqueueMany that walks the targets from the last to the first
TasksFor_Rev(targets, payload) ==
    [i \in DOMAIN targets |->
        [subscription |-> targets[Len(targets) + 1 - i], payload |-> payload]]

\* an EnqueueMany that leaves the first target out
TasksFor_Mut(targets, payload) ==
    [i \in 1..(Len(targets) - 1) |-> [subscription |-> targets[i + 1], payload |-> payload]]

\* the tasks EnqueueMany will send for the targets, in their order
TasksFor(targets, payload) ==
    [i \in DOMAIN targets |-> [subscription |-> targets[i], payload |-> payload]]

\* a handler that keeps the first task to send it itself
Spawn_Mut(goroutines, tasks) ==
    IF tasks = <<>> THEN goroutines ELSE Append(goroutines, Tail(tasks))

\* `go f(...)`: one more goroutine, with the tasks it has to send; one with
\* nothing to send ends at once
Spawn(goroutines, tasks) ==
    IF tasks = <<>> THEN goroutines ELSE Append(goroutines, tasks)

\* a dry run that enqueues all the same
Live_Mut(dryRun) == TRUE

\* Service.TriggerTopic, line 68: whether the targets are handed to the dispatcher
Live(dryRun) == ~dryRun

\* a middleware that calls the handler whatever the header
Authorized_Mut(cfg, header) == TRUE

\* hubSecretAuth, line 78
Authorized(cfg, header) == ValidateHubSecret(cfg, header)

\* hubSecretAuth, then Handlers.trigger with Service.TriggerTopic
Trigger(request, fails) ==
    /\ Quiet
    /\ Serving
    /\ LET topic == NormalizeTopic(optionalString(request.Topic))
           dry == isDryRun(request.dry_run)
           note == [NoNote EXCEPT !.topic = optionalString(request.Topic),
                                  !.secret = request.secret, !.dry = dry]
       IN  IF ~Authorized(config, request.secret)
           THEN /\ lastResp' = Record("trigger", ErrorResp(401, "unauthorized"), note)
                /\ UNCHANGED enq
           ELSE IF \/ ~request.decodes
                   \/ ~request.Title.set \/ ~request.Body.set \/ ~request.URL.set
           THEN /\ lastResp' = Record("trigger", ErrorResp(422, "invalid_payload"), note)
                /\ UNCHANGED enq
           ELSE IF fails
           THEN /\ lastResp' = Record("trigger", ErrorResp(500, "internal_error"),
                                      [note EXCEPT !.stmts = 1])
                /\ UNCHANGED enq
           ELSE \E targets \in ListForTopic(rows, NormalizeTopic(topic)) :
                /\ enq' = IF Live(dry)
                          THEN Spawn(enq, TasksFor(targets,
                                   Marshal(request.Title.value, request.Body.value,
                                           request.URL.value)))
                          ELSE enq
                /\ DOMAIN enq' \subseteq Enqueuers
                /\ lastResp' = Record("trigger",
                                      [NoResp EXCEPT !.code = 200,
                                                     !.status = IF dry THEN "" ELSE "queued",
                                                     !.dry_run = dry, !.topic = topic,
                                                     !.targets = Len(targets)],
                                      [note EXCEPT !.stmts = 1])
    /\ UNCHANGED <<limiterVars, limiterHist, config, rows, reqs, queue, workers, watch,
                   lastSub, check, proc>>

\* Handlers.triggerSelf with Service.TriggerSelf
TriggerSelf(request, fails) ==
    /\ Quiet
    /\ Serving
    /\ LET endpoint == optionalString(request.Endpoint)
           got == GetSubscriptionByEndpoint(rows, endpoint)
           note == [NoNote EXCEPT !.endpoint = endpoint, !.had = RowExists(rows, endpoint),
                                  !.secret = optionalString(request.UICode)]
       IN  IF \/ ~request.decodes
              \/ ~request.UICode.set \/ ~request.Endpoint.set
              \/ ~ValidateUICode(config, request.UICode.value)
           THEN /\ lastResp' = Record("trigger-self",
                                      ErrorResp(401, "invalid_access_code"), note)
                /\ UNCHANGED enq
           ELSE IF fails
           THEN /\ lastResp' = Record("trigger-self", ErrorResp(500, "internal_error"),
                                      [note EXCEPT !.stmts = 1])
                /\ UNCHANGED enq
           ELSE /\ enq' = IF got.found
                          THEN Spawn(enq, TasksFor(<<got.subscription>>, SelfTestPayload))
                          ELSE enq
                /\ DOMAIN enq' \subseteq Enqueuers
                /\ lastResp' = Record("trigger-self",
                                      [NoResp EXCEPT !.code = 200, !.status = "queued",
                                                     !.targets = IF got.found THEN 1 ELSE 0],
                                      [note EXCEPT !.stmts = 1])
    /\ UNCHANGED <<limiterVars, limiterHist, config, rows, reqs, queue, workers, watch,
                   lastSub, check, proc>>

(***************************************************************************)
(* The dispatcher (push.Dispatcher).                                       *)
(***************************************************************************)
\* a channel with room for one task more than configured
Capacity_Mut == QueueSize + 1

\* New, lines 45-53: make(chan task, config.QueueSize), 128 for a size under 1
Capacity == IF QueueSize < 1 THEN 128 ELSE QueueSize

\* Dispatcher.Enqueue inside EnqueueMany/Enqueue: one send on the channel,
\* which blocks while the channel is full
Enqueue(id) ==
    /\ Quiet
    /\ Running
    /\ ~Closed
    /\ id \in DOMAIN enq
    /\ enq[id] # <<>>
    /\ Len(queue) < Capacity
    /\ queue' = Append(queue, Head(enq[id]))
    /\ enq' = [enq EXCEPT ![id] = Tail(@)]
    /\ lastResp' = NoLast
    /\ UNCHANGED <<limiterVars, limiterHist, config, rows, reqs, workers, watch, lastSub,
                   check, proc>>

\* a worker that drops the task only when all three settings are missing
VAPIDMissing_Mut(cfg) ==
    cfg.VAPIDPublicKey = <<>> /\ cfg.VAPIDPrivateKey = <<>> /\ cfg.VAPIDSubject = <<>>

\* sendWithRetry, line 84: one of the three VAPID settings is empty
VAPIDMissing(cfg) ==
    cfg.VAPIDPublicKey = <<>> \/ cfg.VAPIDPrivateKey = <<>> \/ cfg.VAPIDSubject = <<>>

\* a receive that leaves the task in the channel
Received_Mut(channel) == channel

\* Start, line 61: the channel after `item := <-queue` took its first task
Received(channel) == Tail(channel)

\* the worker loop of Start: receive a task; sendWithRetry lines 84-87 drop
\* it when the VAPID settings are incomplete, and the loop of line 106 makes
\* no pass when MaxRetries is negative
Dequeue(w) ==
    /\ Quiet
    /\ Running
    /\ workers[w].pc = "idle"
    /\ \A other \in Workers : workers[other].pc = "idle" => w <= other
    /\ queue # <<>>
    /\ queue' = Received(queue)
    /\ workers' = [workers EXCEPT ![w] =
           IF VAPIDMissing(config) \/ ~(0 <= MaxRetries) THEN IdleWorker
           ELSE [IdleWorker EXCEPT !.pc = "send", !.task = Head(queue)]]
    /\ lastResp' = NoLast
    /\ UNCHANGED <<limiterVars, limiterHist, config, rows, reqs, enq, watch, lastSub, check, proc>>

\* a worker that takes 410 for any other failure status
Classify_Mut(outcome) ==
    CASE outcome = "error" -> "error"
      [] outcome = "201" -> "success"
      [] outcome = "503" -> "server"
      [] OTHER -> "other"

\* a worker that takes every 4xx status for a dead subscription
Classify_Gone(outcome) ==
    CASE outcome = "error" -> "error"
      [] outcome = "201" -> "success"
      [] outcome = "503" -> "server"
      [] OTHER -> "gone"

\* a worker that gives up on the first 5xx
Classify_Once(outcome) ==
    CASE outcome = "error" -> "error"
      [] outcome = "201" -> "success"
      [] outcome = "410" -> "gone"
      [] OTHER -> "other"

\* lines 108-136: the classes of outcome sendWithRetry tells apart
Classify(outcome) ==
    CASE outcome = "error" -> "error"
      [] outcome = "201" -> "success"
      [] outcome = "410" -> "gone"
      [] outcome = "503" -> "server"
      [] OTHER -> "other"

\* a loop that also tries again after a status that is neither 2xx, 410 nor 5xx
AfterAttempt_Eager(class, attempt) ==
    CASE class = "gone" -> "delete"
      [] class \in {"error", "server", "other"} /\ attempt < MaxRetries -> "backoff"
      [] OTHER -> "idle"

\* a loop that sleeps and tries again after the last attempt as well
AfterAttempt_Mut(class, attempt) ==
    CASE class = "gone" -> "delete"
      [] class \in {"error", "server"} /\ attempt <= MaxRetries -> "backoff"
      [] OTHER -> "idle"

\* where one attempt leaves the worker: at the deletion, in the sleep before
\* the next attempt, or back at the channel
AfterAttempt(class, attempt) ==
    CASE class = "gone" -> "delete"
      [] class \in {"error", "server"} /\ attempt < MaxRetries -> "backoff"
      [] OTHER -> "idle"

\* sendWithRetry returns: the worker is back at the channel; when the run
\* observes the workers, for the history, what the last attempt of the task
\* was and how it ended
Retire(worker, outcome) ==
    IF watch = "worker"
    THEN [IdleWorker EXCEPT !.attempt = worker.attempt, !.status = outcome,
                            !.task = worker.task,
                            !.had = worker.had, !.deleted = worker.deleted]
    ELSE IdleWorker

\* a worker that looks the subscription up in the store for every attempt
Target_Mut(item, store) ==
    LET current == GetSubscriptionByEndpoint(store, item.subscription.Endpoint).subscription
    IN  [Endpoint |-> current.Endpoint, P256dh |-> current.P256DH, Auth |-> current.Auth]

\* sendWithRetry, lines 98-104: the webpush.Subscription of every attempt,
\* built once from the task
Target(item, store) ==
    [Endpoint |-> item.subscription.Endpoint, P256dh |-> item.subscription.P256DH,
     Auth |-> item.subscription.Auth]

\* one webpush.SendNotification and its classification
Send(w, outcome) ==
    /\ Quiet
    /\ Running
    /\ workers[w].pc = "send"
    /\ LET next == AfterAttempt(Classify(outcome), workers[w].attempt)
       IN  workers' = [workers EXCEPT ![w] =
               IF next = "idle" THEN Retire(workers[w], outcome)
               ELSE [workers[w] EXCEPT !.pc = next, !.status = outcome,
                                       !.used = Target(workers[w].task, rows)]]
    /\ lastResp' = NoLast
    /\ UNCHANGED <<limiterVars, limiterHist, config, rows, reqs, enq, queue, watch, lastSub,
                   check, proc>>

\* time.Sleep(backoffDuration(...)) is over; continue with the next attempt
Wake(w) ==
    /\ Quiet
    /\ Running
    /\ workers[w].pc = "backoff"
    /\ workers' = [workers EXCEPT ![w] =
           [workers[w] EXCEPT !.pc = "send", !.attempt = workers[w].attempt + 1,
                              !.status = ""]]
    /\ lastResp' = NoLast
    /\ UNCHANGED <<limiterVars, limiterHist, config, rows, reqs, enq, queue, watch, lastSub,
                   check, proc>>

\* lines 124-128: deleteByEP(context.Background(), endpoint); an error is logged
Delete410(w, fails) ==
    /\ Quiet
    /\ Running
    /\ workers[w].pc = "delete"
    /\ LET endpoint == workers[w].task.subscription.Endpoint
       IN  /\ rows' = IF fails THEN rows ELSE DeleteByEndpoint(rows, endpoint)
           /\ reqs' = IF ~fails /\ watch = "subscribe"
                      THEN MarkRequests(reqs, 0, endpoint)
                      ELSE reqs
           /\ workers' = [workers EXCEPT ![w] =
                  [workers[w] EXCEPT !.pc = "done", !.deleted = ~fails,
                                     !.removed = rows \ rows',
                                     !.had = RowExists(rows, endpoint)]]
    /\ lastResp' = NoLast
    /\ UNCHANGED <<limiterVars, limiterHist, config, enq, queue, watch, lastSub, check, proc>>

\* sendWithRetry returns after the deletion; the worker goes back to the channel
Complete(w) ==
    /\ Quiet
    /\ Running
    /\ workers[w].pc = "done"
    /\ workers' = [workers EXCEPT ![w] = Retire(workers[w], workers[w].status)]
    /\ lastResp' = NoLast
    /\ UNCHANGED <<limiterVars, limiterHist, config, rows, reqs, enq, queue, watch, lastSub,
                   check, proc>>

(***************************************************************************)
(* The end of main(): server.Shutdown, then the deferred dispatcher.Stop.  *)
(***************************************************************************)
\* the signal arrives and server.Shutdown returns: no handler starts any more
Shutdown ==
    /\ Quiet
    /\ Serving
    /\ proc' = [proc EXCEPT !.phase = "shutdown"]
    /\ UNCHANGED <<limiterVars, limiterHist, config, rows, reqs, enq, queue, workers, watch,
                   lastResp, lastSub, check>>

\* the tasks in the channel and the ones the workers hold
Pending == Len(queue) + Cardinality({w \in Workers : workers[w].pc # "idle"})

\* Dispatcher.Stop, line 69: close(dispatcher.queue)
StopClose ==
    /\ Quiet
    /\ proc.phase = "shutdown"
    /\ proc' = [proc EXCEPT !.phase = "closed", !.atStop = Pending]
    /\ UNCHANGED <<limiterVars, limiterHist, config, rows, reqs, enq, queue, workers, watch,
                   lastResp, lastSub, check>>

\* a loop that ends as soon as the channel is closed
Drained_Mut(channel) == TRUE

\* `for item := range dispatcher.queue` ends when the closed channel is empty
Drained(channel) == channel = <<>>

\* the worker loop of Start ends; waitGroup.Done()
WorkerExit(w) ==
    /\ Quiet
    /\ Closed
    /\ workers[w].pc = "idle"
    /\ Drained(queue)
    /\ workers' = [workers EXCEPT ![w] = [IdleWorker EXCEPT !.pc = "exited"]]
    /\ UNCHANGED <<limiterVars, limiterHist, config, rows, reqs, enq, queue, watch,
                   lastResp, lastSub, check, proc>>

\* Dispatcher.Stop, line 70: waitGroup.Wait() returns, and main after it
StopReturn ==
    /\ Quiet
    /\ Closed
    /\ \A w \in Workers : workers[w].pc = "exited"
    /\ proc' = [proc EXCEPT !.phase = "stopped"]
    /\ UNCHANGED <<limiterVars, limiterHist, config, rows, reqs, enq, queue, workers, watch,
                   lastResp, lastSub, check>>

\* Dispatcher.Enqueue on the closed channel: the send panics, the process dies
EnqueuePanic(id) ==
    /\ Quiet
    /\ Closed
    /\ id \in DOMAIN enq
    /\ enq[id] # <<>>
    /\ proc' = [proc EXCEPT !.phase = "crashed"]
    /\ UNCHANGED <<limiterVars, limiterHist, config, rows, reqs, enq, queue, workers, watch,
                   lastResp, lastSub, check>>

(***************************************************************************)
(* Credential checks on their own.                                         *)
(***************************************************************************)
NoCheck == [fn |-> "", expected |-> <<>>, actual |-> <<>>, result |-> FALSE]

CredentialInputs ==
    {<<>>, <<"a">>, <<"b">>, <<"a", "b">>, <<"a", "c">>, <<"b", "a">>, <<" ">>,
     <<"a", "b", "c">>}

CheckUICode(code) ==
    /\ check' = [fn |-> "ValidateUICode", expected |-> config.HubUICode, actual |-> code,
                 result |-> ValidateUICode(config, code)]
    /\ UNCHANGED <<limiterVars, limiterHist, config, hubVars>>

CheckHubSecret(secret) ==
    /\ check' = [fn |-> "ValidateHubSecret", expected |-> config.HubSecret, actual |-> secret,
                 result |-> ValidateHubSecret(config, secret)]
    /\ UNCHANGED <<limiterVars, limiterHist, config, hubVars>>

(***************************************************************************)
(* backoffDuration on its own.  Go's int and time.Duration are 64-bit      *)
(* two's complement integers; a value is the sequence of its bytes, lowest *)
(* first, and the arithmetic is done byte by byte.                         *)
(***************************************************************************)
\* the width of int and of time.Duration (int64)
IntBits == 64

\* m, for 0 <= m < 2^31, in `bits` bits
BytesOf(m, bits) ==
    [i \in 1..(bits \div 8) |-> IF i <= 4 THEN (m \div (256 ^ (i - 1))) % 256 ELSE 0]

RECURSIVE TimesFrom(_, _, _, _)
\* the bytes of x * factor from byte i up, given the carry into byte i; the
\* carry out of the top byte is lost
TimesFrom(bytes, factor, i, carry) ==
    IF i > Len(bytes) THEN <<>>
    ELSE LET product == bytes[i] * factor + carry
         IN  <<product % 256>> \o TimesFrom(bytes, factor, i + 1, product \div 256)

\* x * factor, wrapping at the width
Times(bytes, factor) == TimesFrom(bytes, factor, 1, 0)

\* x << k: the bits move up by k, the ones pushed over the top are lost; a
\* count of the width or more leaves 0
ShiftLeft(bytes, k) ==
    LET within == Times(bytes, 2 ^ (k % 8))
    IN  [i \in DOMAIN bytes |->
            IF i - (k \div 8) >= 1 THEN within[i - (k \div 8)] ELSE 0]

\* x * time.Millisecond, which is 1000000 nanoseconds
TimesMillisecond(bytes) == Times(bytes, 1000000)

\* the number baseMS.m * 2^baseMS.e
IntOf(baseMS, bits) == ShiftLeft(BytesOf(baseMS.m, bits), baseMS.e)

\* a delay that does not grow with the attempt
backoffDuration_Mut(baseMS, attempt) ==
    TimesMillisecond(IF baseMS.m < 1 THEN BytesOf(1, IntBits) ELSE IntOf(baseMS, IntBits))

\* backoffDuration: baseMS under 1 counts as 1; delay := baseMS << attempt;
\* time.Duration(delay) * time.Millisecond
backoffDuration(baseMS, attempt) ==
    TimesMillisecond(ShiftLeft(IF baseMS.m < 1 THEN BytesOf(1, IntBits)
                               ELSE IntOf(baseMS, IntBits),
                               attempt))

\* the values of RETRY_BASE_BACKOFF_MS: none, small ones, the default, and
\* large ones
BaseInputs ==
    {[m |-> m, e |-> 0] : m \in {0, 1, 3, 400, 1000}}
        \cup {[m |-> 1, e |-> e] : e \in {20, 43, 44}}

\* sendWithRetry, lines 110 and 132: the sleep after failed attempt `attempt`
Backoff(baseMS, attempt) ==
    /\ check' = [fn |-> "backoffDuration", baseMS |-> baseMS, attempt |-> attempt,
                 result |-> backoffDuration(baseMS, attempt)]
    /\ UNCHANGED <<limiterVars, limiterHist, config, hubVars>>

(***************************************************************************)
(* One task on its own: sendWithRetry of the Go dispatcher, and next to it *)
(* do_send of the Elixir WebPushClient, given the same outcome for every   *)
(* attempt.  Time is in milliseconds from the start of the task; a         *)
(* transmission takes no time.                                             *)
(***************************************************************************)
RECURSIVE MillisFrom(_, _, _)
\* the bytes from byte i down, divided by 1000000, given the remainder of
\* the bytes above
MillisFrom(bytes, i, rest) ==
    IF i < 1 THEN 0
    ELSE LET current == rest * 256 + bytes[i]
             digit == current \div 1000000
         IN  (IF digit = 0 THEN 0 ELSE digit * 256 ^ (i - 1))
                 + MillisFrom(bytes, i - 1, current % 1000000)

\* time.Sleep(d) in milliseconds: a negative or zero d returns at once
Sleep(duration) ==
    IF duration[Len(duration)] >= 128 THEN 0
    ELSE MillisFrom(duration, Len(duration), 0)

\* the values of MAX_RETRIES and RETRY_BASE_BACKOFF_MS of these runs
RetryLimits == -1..MaxLimit
RetryBases == {0, 1, 400}

\* a task in the hands of one implementation: the position, the attempt
\* counter, the start time of every attempt made, every sleep, the time now
\* and whether the subscription was deleted
NoRun == [pc |-> "returned", attempt |-> 0, starts |-> <<>>, slept |-> <<>>, now |-> 0,
          deleted |-> FALSE]

\* the head of the loop: the body runs while attempt <= MaxRetries
LoopHead(run, maxRetries) ==
    [run EXCEPT !.pc = IF run.attempt <= maxRetries THEN "send" ELSE "returned"]

\* sendWithRetry, lines 84-106: the VAPID check, then the loop from attempt 0
goBegin(vapid, maxRetries) ==
    IF ~vapid THEN NoRun ELSE LoopHead(NoRun, maxRetries)

\* sendWithRetry, lines 107-136: one pass of the loop body, the sleep and
\* the increment included
goAttempt(run, maxRetries, baseMS, outcome) ==
    LET class == Classify(outcome)
        sent == [run EXCEPT !.starts = Append(@, run.now)]
        pause == Sleep(backoffDuration([m |-> baseMS, e |-> 0], run.attempt))
    IN  CASE class \in {"error", "server"} /\ run.attempt < maxRetries ->
                LoopHead([sent EXCEPT !.slept = Append(@, pause), !.now = @ + pause,
                                      !.attempt = @ + 1], maxRetries)
          [] class = "gone" -> [sent EXCEPT !.pc = "returned", !.deleted = TRUE]
          [] OTHER -> [sent EXCEPT !.pc = "returned"]

\* send_notification, lines 7-14: do_send from attempt 0
exBegin == [NoRun EXCEPT !.pc = "send"]

\* do_send, lines 16-91: one Req.post and the clause of the case that takes
\* its result; trunc(base * :math.pow(2, attempt)) is base * 2^attempt
exAttempt(run, maxRetries, baseMS, outcome) ==
    LET sent == [run EXCEPT !.starts = Append(@, run.now)]
        pause == baseMS * 2 ^ run.attempt
    IN  CASE outcome = "201" -> [sent EXCEPT !.pc = "returned"]
          [] outcome = "410" -> [sent EXCEPT !.pc = "returned", !.deleted = TRUE]
          [] outcome = "503" /\ run.attempt < maxRetries ->
                [sent EXCEPT !.slept = Append(@, pause), !.now = @ + pause,
                             !.attempt = @ + 1]
          [] outcome = "error" /\ run.attempt < maxRetries ->
                [sent EXCEPT !.slept = Append(@, pause), !.now = @ + pause,
                             !.attempt = @ + 1]
          [] OTHER -> [sent EXCEPT !.pc = "returned"]

\* a worker takes a task, and the Elixir client is given the same one
Take(vapid, maxRetries, baseMS) ==
    /\ check.fn # "sendWithRetry"
    /\ check' = [fn |-> "sendWithRetry", vapid |-> vapid, maxRetries |-> maxRetries,
                 baseMS |-> baseMS, outcomes |-> <<>>,
                 go |-> goBegin(vapid, maxRetries), ex |-> exBegin]
    /\ UNCHANGED <<limiterVars, limiterHist, config, hubVars>>

\* the push service answers the next attempt of the task: the same answer
\* to each implementation that makes that attempt
Transmit(outcome) ==
    /\ check.fn = "sendWithRetry"
    /\ check.go.pc = "send" \/ check.ex.pc = "send"
    /\ check' = [check EXCEPT
           !.outcomes = Append(@, outcome),
           !.go = IF @.pc = "send"
                  THEN goAttempt(@, check.maxRetries, check.baseMS, outcome) ELSE @,
           !.ex = IF @.pc = "send"
                  THEN exAttempt(@, check.maxRetries, check.baseMS, outcome) ELSE @]
    /\ UNCHANGED <<limiterVars, limiterHist, config, hubVars>>

(***************************************************************************)
(* Request parsing on its own.                                             *)
(***************************************************************************)
\* subscribe bodies that fill the nested object, the flat fields, or both
DualSubscribes ==
    {[decodes |-> TRUE, ip |-> "ip1", UICode |-> <<"abc">>, Topic |-> <<>>,
      Subscription |-> nested,
      Endpoint |-> e, P256DH |-> k, Auth |-> a, Keys |-> [P256DH |-> kk, Auth |-> ka]] :
        nested \in {NilSubscription} \cup
                   {[present |-> TRUE, Endpoint |-> ne, Keys |-> [P256DH |-> nk, Auth |-> na]] :
                       ne \in {<<>>, <<"e1">>, <<" ", "e1">>}, nk \in {<<>>, <<"k1">>},
                       na \in {<<>>, <<"a1">>}},
        e \in {<<>>, <<"e2">>}, k \in {<<>>, <<"k2">>}, a \in {<<>>, <<"a2">>},
        kk \in {<<>>, <<"k3">>}, ka \in {<<>>, <<"a3">>}}

\* unsubscribe bodies that fill the nested object, the flat field, or both
DualUnsubscribes ==
    {[decodes |-> TRUE, Endpoint |-> e, Subscription |-> nested] :
        nested \in {NilSubscription} \cup
                   {[present |-> TRUE, Endpoint |-> ne, Keys |-> NoKeys] :
                       ne \in {<<>>, <<"e1">>, <<" ", "e1">>}},
        e \in {<<>>, <<"e2">>, <<"e2", " ">>}}

\* Handlers.subscribe, lines 109-110, on a decoded body
ParseSubscribe(request) ==
    /\ check' = [fn |-> "buildSubscription", request |-> request,
                 result |-> buildSubscription(request, NormalizeTopic(request.Topic))]
    /\ UNCHANGED <<limiterVars, limiterHist, config, hubVars>>

\* Handlers.unsubscribe, lines 138-141, on a decoded body
ParseUnsubscribe(request) ==
    /\ check' = [fn |-> "unsubscribe", request |-> request,
                 result |-> UnsubscribeEndpoint(request)]
    /\ UNCHANGED <<limiterVars, limiterHist, config, hubVars>>

(***************************************************************************)
(* Initial states and specifications.                                      *)
(***************************************************************************)
InitHub ==
    /\ rows = {}
    /\ reqs = [r \in Reqs |-> IdleReq]
    /\ enq = <<>>
    /\ queue = <<>>
    /\ workers = [w \in Workers |-> IdleWorker]
    /\ lastResp = NoLast
    /\ proc = Started
    /\ lastSub = [e \in Endpoints \cup {<<>>} |-> NoPrev]

InitLimiterState(cfg) ==
    /\ clock = 0
    /\ limit = NewLimit(cfg.SubscribeRateLimit)
    /\ window = NewWindow(cfg.SubscribeWindow)
    /\ attempts = [key \in IPs |-> <<>>]
    /\ allowing = [g \in Callers |-> NoCall]
    /\ accepted = <<>>
    /\ denials = [key \in IPs |-> 0]
    /\ calls = 0
    /\ lastAllow = NoAllow

\* config.Load(): the credentials and the VAPID settings as the environment
\* gives them
Configured ==
    [HubUICode |-> <<"abc">>, HubSecret |-> <<"S">>,
     VAPIDPublicKey |-> <<"pub">>, VAPIDPrivateKey |-> <<"priv">>,
     VAPIDSubject |-> <<"mailto:hub">>,
     SubscribeRateLimit |-> 2, SubscribeWindow |-> 2]
Deployments ==
    {Configured,
     [Configured EXCEPT !.VAPIDPrivateKey = <<>>],
     [Configured EXCEPT !.HubUICode = <<>>, !.HubSecret = <<>>]}

\* ratelimit.New(cfg.SubscribeRateLimit, cfg.SubscribeWindow) next to an idle hub
InitLimiter ==
    /\ config = [Configured EXCEPT !.SubscribeRateLimit = RateLimit,
                                   !.SubscribeWindow = RateWindow]
    /\ InitLimiterState(config)
    /\ InitHub
    /\ watch = ""
    /\ check = NoCheck

NextLimiter ==
    \/ Tick
    \/ \E g \in Callers, key \in IPs : AllowBegin(g, key)
    \/ \E g \in Callers : AllowCommit(g)

SpecLimiter == InitLimiter /\ [][NextLimiter]_vars

\* the hub after main() has wired it and started the dispatcher
InitWatching(op) ==
    /\ config \in Deployments
    /\ InitLimiterState(config)
    /\ InitHub
    /\ watch = op
    /\ check = NoCheck

Next ==
    \/ \E r \in Reqs, request \in SubscribeRequests : SubscribeAllow(r, request)
    \/ \E r \in Reqs, fails \in BOOLEAN : SubscribeExists(r, fails)
    \/ \E r \in Reqs, fails \in BOOLEAN : SubscribeUpsert(r, fails)
    \/ \E request \in UnsubscribeRequests, fails \in BOOLEAN : Unsubscribe(request, fails)
    \/ \E query \in EndpointInputs, fails \in BOOLEAN : SubscriptionMe(query, fails)
    \/ \E request \in TriggerRequests, fails \in BOOLEAN : Trigger(request, fails)
    \/ \E request \in TriggerSelfRequests, fails \in BOOLEAN : TriggerSelf(request, fails)
    \/ \E id \in Enqueuers : Enqueue(id)
    \/ \E w \in Workers : Dequeue(w)
    \/ \E w \in Workers, outcome \in Outcomes : Send(w, outcome)
    \/ \E w \in Workers : Wake(w)
    \/ \E w \in Workers, fails \in BOOLEAN : Delete410(w, fails)
    \/ \E w \in Workers : Complete(w)
    \/ Observe

\* the hub, observing the responses of one operation
Init == InitWatching("trigger")

Spec == Init /\ [][Next]_vars

SpecSubscribe == InitWatching("subscribe") /\ [][Next]_vars

SpecUnsubscribe == InitWatching("unsubscribe") /\ [][Next]_vars

SpecMe == InitWatching("me") /\ [][Next]_vars

\* the subscription store under the handlers that write it, with time passing
InitStore ==
    /\ config = Configured
    /\ InitLimiterState(config)
    /\ InitHub
    /\ watch = ""
    /\ check = NoCheck

\* the subscribes of one client: they carry the access code and name, in the
\* nested shape, the client's endpoint
StoreSubscribes ==
    {request \in NestedSubscribes :
        /\ request.UICode = Configured.HubUICode
        /\ TrimSpace(request.Subscription.Endpoint) = <<"e1">>}

NextStore ==
    \/ Tick
    \/ \E r \in Reqs, request \in StoreSubscribes : SubscribeAllow(r, request)
    \/ \E r \in Reqs, fails \in BOOLEAN : SubscribeExists(r, fails)
    \/ \E r \in Reqs, fails \in BOOLEAN : SubscribeUpsert(r, fails)
    \/ \E request \in UnsubscribeRequests, fails \in BOOLEAN : Unsubscribe(request, fails)

SpecStore == InitStore /\ [][NextStore]_vars

\* the subscribes of clients that register again with new credentials
RewriteSubscribes ==
    {[decodes |-> TRUE, ip |-> ip, UICode |-> Configured.HubUICode, Topic |-> topic,
      Subscription |-> [present |-> TRUE, Endpoint |-> e,
                        Keys |-> [P256DH |-> k, Auth |-> a]],
      Endpoint |-> <<>>, P256DH |-> <<>>, Auth |-> <<>>, Keys |-> NoKeys] :
        ip \in HubIPs, topic \in TopicInputs, e \in Endpoints,
        k \in {<<"k1">>, <<"k2">>}, a \in {<<"a1">>, <<"a2">>}}

\* the store under re-registrations, the responses of subscribe observed
InitRewrite ==
    /\ config = Configured
    /\ InitLimiterState(config)
    /\ InitHub
    /\ watch = "subscribe"
    /\ check = NoCheck

NextRewrite ==
    \/ \E r \in Reqs, request \in RewriteSubscribes : SubscribeAllow(r, request)
    \/ \E r \in Reqs, fails \in BOOLEAN : SubscribeExists(r, fails)
    \/ \E r \in Reqs, fails \in BOOLEAN : SubscribeUpsert(r, fails)
    \/ \E request \in UnsubscribeRequests, fails \in BOOLEAN : Unsubscribe(request, fails)
    \/ Observe

SpecRewrite == InitRewrite /\ [][NextRewrite]_vars

\* a store with two subscribers of the default topic
Subscribed ==
    {InsertedRow([Endpoint |-> e, P256DH |-> <<"k1">>, Auth |-> <<"a1">>,
                  Topics |-> <<DefaultTopic>>], 0) : e \in Endpoints}

\* the task of one notification for a subscriber
TaskOf(row) ==
    [subscription |-> ScanSubscription(row),
     payload |-> Marshal(DefaultTopic, <<"t">>, <<"b">>)]

\* the dispatcher at rest, and the dispatcher under load: every worker at the
\* first attempt of a task and the queue full
Loads ==
    {[queue |-> <<>>, workers |-> [w \in Workers |-> IdleWorker]]} \cup
    {[queue |-> [i \in 1..Capacity |-> TaskOf(row)],
      workers |-> [w \in Workers |-> [IdleWorker EXCEPT !.pc = "send", !.task = TaskOf(row)]]] :
        row \in Subscribed}

\* the triggers of the hub for the default topic: the secret right or wrong,
\* live or a dry run
HubTriggers ==
    {request \in TriggerRequests :
        /\ request.decodes
        /\ request.secret \in {<<"S">>, <<"bad">>}
        /\ request.Title = Ptr(<<"T">>)
        /\ request.Topic = Nil
        /\ request.dry_run \in {<<>>, <<"1">>}}

\* the self tests of the two clients
ClientTriggers ==
    {request \in TriggerSelfRequests :
        /\ request.decodes
        /\ request.UICode = Ptr(<<"abc">>)
        /\ request.Endpoint # Nil}

\* the unsubscribes of the two clients
ClientUnsubscribes ==
    {request \in UnsubscribeRequests :
        /\ request.Subscription = NilSubscription
        /\ request.Endpoint \in Endpoints}

\* the subscribes of a client that registers again with a new key
DispatchSubscribes ==
    {request \in RewriteSubscribes :
        /\ request.Topic = <<>>
        /\ request.Subscription.Endpoint = <<"e1">>
        /\ request.Subscription.Keys = [P256DH |-> <<"k2">>, Auth |-> <<"a1">>]}

\* triggers and the dispatcher over a populated store that clients keep
\* changing
InitDispatch ==
    /\ config = Configured
    /\ InitLimiterState(config)
    /\ reqs = [r \in Reqs |-> IdleReq]
    /\ enq = <<>>
    /\ queue = <<>>
    /\ workers = [w \in Workers |-> IdleWorker]
    /\ lastResp = NoLast
    /\ proc = Started
    /\ lastSub = [e \in Endpoints \cup {<<>>} |-> NoPrev]
    /\ rows = Subscribed
    /\ watch = ""
    /\ check = NoCheck

NextDispatch ==
    \/ \E r \in Reqs, request \in DispatchSubscribes : SubscribeAllow(r, request)
    \/ \E r \in Reqs, fails \in BOOLEAN : SubscribeExists(r, fails)
    \/ \E r \in Reqs, fails \in BOOLEAN : SubscribeUpsert(r, fails)
    \/ \E request \in ClientUnsubscribes, fails \in BOOLEAN : Unsubscribe(request, fails)
    \/ \E request \in HubTriggers, fails \in BOOLEAN : Trigger(request, fails)
    \/ \E request \in ClientTriggers, fails \in BOOLEAN : TriggerSelf(request, fails)
    \/ \E id \in Enqueuers : Enqueue(id)
    \/ \E w \in Workers : Dequeue(w)
    \/ \E w \in Workers, outcome \in Outcomes : Send(w, outcome)
    \/ \E w \in Workers : Wake(w)
    \/ \E w \in Workers, fails \in BOOLEAN : Delete410(w, fails)
    \/ \E w \in Workers : Complete(w)

SpecDispatch == InitDispatch /\ [][NextDispatch]_vars

\* triggers that arrive at a dispatcher at rest or under load, their
\* responses observed
InitLoad ==
    /\ config = Configured
    /\ InitLimiterState(config)
    /\ reqs = [r \in Reqs |-> IdleReq]
    /\ enq = <<>>
    /\ \E load \in Loads : queue = load.queue /\ workers = load.workers
    /\ lastResp = NoLast
    /\ proc = Started
    /\ lastSub = [e \in Endpoints \cup {<<>>} |-> NoPrev]
    /\ rows = Subscribed
    /\ watch = "trigger"
    /\ check = NoCheck

NextLoad ==
    \/ \E request \in HubTriggers, fails \in BOOLEAN : Trigger(request, fails)
    \/ \E request \in ClientTriggers, fails \in BOOLEAN : TriggerSelf(request, fails)
    \/ \E id \in Enqueuers : Enqueue(id)
    \/ \E w \in Workers : Dequeue(w)
    \/ \E w \in Workers, outcome \in Outcomes : Send(w, outcome)
    \/ \E w \in Workers : Wake(w)
    \/ \E w \in Workers, fails \in BOOLEAN : Delete410(w, fails)
    \/ \E w \in Workers : Complete(w)
    \/ Observe

SpecLoad == InitLoad /\ [][NextLoad]_vars

\* the stores a trigger meets: both clients on the default topic, or one of
\* them on "news"
Stores ==
    {Subscribed,
     {InsertedRow([Endpoint |-> <<"e1">>, P256DH |-> <<"k1">>, Auth |-> <<"a1">>,
                   Topics |-> <<DefaultTopic>>], 0),
      InsertedRow([Endpoint |-> <<"e2">>, P256DH |-> <<"k1">>, Auth |-> <<"a1">>,
                   Topics |-> <<<<"news">>>>], 0)}}

\* the triggers of the hub with the right secret, for the default topic or
\* for "news", live or a dry run
TopicTriggers ==
    {request \in TriggerRequests :
        /\ request.decodes
        /\ request.secret = <<"S">>
        /\ request.Title = Ptr(<<"T">>)
        /\ request.dry_run \in {<<>>, <<"1">>}}

\* a trigger and the dispatcher that works its tasks off, the responses of
\* trigger observed
InitFanout ==
    /\ config = Configured
    /\ InitLimiterState(config)
    /\ reqs = [r \in Reqs |-> IdleReq]
    /\ enq = <<>>
    /\ queue = <<>>
    /\ workers = [w \in Workers |-> IdleWorker]
    /\ lastResp = NoLast
    /\ proc = Started
    /\ lastSub = [e \in Endpoints \cup {<<>>} |-> NoPrev]
    /\ rows \in Stores
    /\ watch = "trigger"
    /\ check = NoCheck

NextFanout ==
    \/ \E request \in TopicTriggers, fails \in BOOLEAN : Trigger(request, fails)
    \/ \E id \in Enqueuers : Enqueue(id)
    \/ \E w \in Workers : Dequeue(w)
    \/ \E w \in Workers, outcome \in Outcomes : Send(w, outcome)
    \/ \E w \in Workers : Wake(w)
    \/ \E w \in Workers, fails \in BOOLEAN : Delete410(w, fails)
    \/ \E w \in Workers : Complete(w)
    \/ Observe

\* goroutines that can run do run: a send waiting at the channel goes through
\* once a place is free (waiting senders are served in turn), a worker takes
\* the next task, a transmission returns, a sleep ends, a deletion returns;
\* a response that waits to be read does not hold them up for ever
FairFanout ==
    /\ SF_vars(\E id \in Enqueuers : Enqueue(id))
    /\ SF_vars(\E w \in Workers : Dequeue(w))
    /\ \A w \in Workers :
           /\ SF_vars(\E outcome \in Outcomes : Send(w, outcome))
           /\ SF_vars(Wake(w))
           /\ SF_vars(\E fails \in BOOLEAN : Delete410(w, fails))
           /\ SF_vars(Complete(w))
    /\ WF_vars(Observe)

SpecFanout == InitFanout /\ [][NextFanout]_vars /\ FairFanout

\* self tests of a client with a row and of one without, in every
\* deployment, the responses of trigger-self observed
InitSelf ==
    /\ config \in Deployments
    /\ InitLimiterState(config)
    /\ reqs = [r \in Reqs |-> IdleReq]
    /\ enq = <<>>
    /\ queue = <<>>
    /\ workers = [w \in Workers |-> IdleWorker]
    /\ lastResp = NoLast
    /\ proc = Started
    /\ lastSub = [e \in Endpoints \cup {<<>>} |-> NoPrev]
    /\ rows = {row \in Subscribed : row.endpoint = <<"e1">>}
    /\ watch = "trigger-self"
    /\ check = NoCheck

NextSelf ==
    \/ \E request \in TriggerSelfRequests, fails \in BOOLEAN : TriggerSelf(request, fails)
    \/ \E id \in Enqueuers : Enqueue(id)
    \/ \E w \in Workers : Dequeue(w)
    \/ \E w \in Workers, outcome \in Outcomes : Send(w, outcome)
    \/ \E w \in Workers : Wake(w)
    \/ \E w \in Workers, fails \in BOOLEAN : Delete410(w, fails)
    \/ \E w \in Workers : Complete(w)
    \/ Observe

SpecSelf == InitSelf /\ [][NextSelf]_vars

\* the subscribes of two clients that name no topic, a blank one, or "news"
TopicSubscribes ==
    {[decodes |-> TRUE, ip |-> ip, UICode |-> Configured.HubUICode, Topic |-> topic,
      Subscription |-> [present |-> TRUE, Endpoint |-> e,
                        Keys |-> [P256DH |-> <<"k1">>, Auth |-> <<"a1">>]],
      Endpoint |-> <<>>, P256DH |-> <<>>, Auth |-> <<>>, Keys |-> NoKeys] :
        ip \in HubIPs, topic \in {<<>>, <<" ">>, <<" ", " ">>, <<"news">>}, e \in Endpoints}

\* the store under subscribes with every kind of topic, their responses
\* observed
InitTopics ==
    /\ config = Configured
    /\ InitLimiterState(config)
    /\ InitHub
    /\ watch = "subscribe"
    /\ check = NoCheck

NextTopics ==
    \/ \E r \in Reqs, request \in TopicSubscribes : SubscribeAllow(r, request)
    \/ \E r \in Reqs, fails \in BOOLEAN : SubscribeExists(r, fails)
    \/ \E r \in Reqs, fails \in BOOLEAN : SubscribeUpsert(r, fails)
    \/ \E request \in ClientUnsubscribes, fails \in BOOLEAN : Unsubscribe(request, fails)
    \/ Observe

SpecTopics == InitTopics /\ [][NextTopics]_vars

\* the parsers applied to every body of the two shapes
InitShapes ==
    /\ config = Configured
    /\ InitLimiterState(config)
    /\ InitHub
    /\ watch = ""
    /\ check = NoCheck

NextShapes ==
    \/ \E request \in DualSubscribes : ParseSubscribe(request)
    \/ \E request \in DualUnsubscribes : ParseUnsubscribe(request)

SpecShapes == InitShapes /\ [][NextShapes]_vars

\* the workers at their tasks over a populated store, the end of every task
\* observed
InitWorker ==
    /\ config = Configured
    /\ InitLimiterState(config)
    /\ reqs = [r \in Reqs |-> IdleReq]
    /\ enq = <<>>
    /\ queue = <<>>
    /\ workers = [w \in Workers |-> IdleWorker]
    /\ lastResp = NoLast
    /\ proc = Started
    /\ lastSub = [e \in Endpoints \cup {<<>>} |-> NoPrev]
    /\ rows = Subscribed
    /\ watch = "worker"
    /\ check = NoCheck

NextWorker ==
    \/ \E request \in HubTriggers, fails \in BOOLEAN : Trigger(request, fails)
    \/ \E request \in ClientTriggers, fails \in BOOLEAN : TriggerSelf(request, fails)
    \/ \E request \in ClientUnsubscribes, fails \in BOOLEAN : Unsubscribe(request, fails)
    \/ \E id \in Enqueuers : Enqueue(id)
    \/ \E w \in Workers : Dequeue(w)
    \/ \E w \in Workers, outcome \in Outcomes : Send(w, outcome)
    \/ \E w \in Workers : Wake(w)
    \/ \E w \in Workers, fails \in BOOLEAN : Delete410(w, fails)
    \/ \E w \in Workers : Complete(w)

SpecWorker == InitWorker /\ [][NextWorker]_vars

\* backoffDuration applied to every base and every attempt number
InitBackoff ==
    /\ config = Configured
    /\ InitLimiterState(config)
    /\ InitHub
    /\ watch = ""
    /\ check = NoCheck

NextBackoff ==
    \E baseMS \in BaseInputs, attempt \in 0..MaxShift : Backoff(baseMS, attempt)

SpecBackoff == InitBackoff /\ [][NextBackoff]_vars

\* two triggers of the default topic, told apart by their titles, and what
\* the store returned to each
Concurrent ==
    {[fn |-> "EnqueueMany", targets |-> <<first, second>>,
      payloads |-> <<Marshal(<<"A">>, <<"t">>, <<"b">>), Marshal(<<"B">>, <<"t">>, <<"b">>)>>] :
        first \in ListForTopic(Subscribed, DefaultTopic),
        second \in ListForTopic(Subscribed, DefaultTopic)}

\* both triggers are answered and the goroutine of each is about to send
\* its first task
Triggered(op, starts) ==
    /\ config = Configured
    /\ InitLimiterState(config)
    /\ reqs = [r \in Reqs |-> IdleReq]
    /\ queue = <<>>
    /\ workers = [w \in Workers |-> IdleWorker]
    /\ lastResp = NoLast
    /\ proc = Started
    /\ lastSub = [e \in Endpoints \cup {<<>>} |-> NoPrev]
    /\ rows = Subscribed
    /\ watch = op
    /\ check \in starts
    /\ enq = Spawn(Spawn(<<>>, TasksFor(check.targets[1], check.payloads[1])),
                   TasksFor(check.targets[2], check.payloads[2]))

\* the same, the end of every task observed
InitOrder == Triggered("worker", Concurrent)

NextOrder ==
    \/ \E id \in {1, 2} : Enqueue(id)
    \/ \E w \in Workers : Dequeue(w)
    \/ \E w \in Workers, outcome \in Outcomes : Send(w, outcome)
    \/ \E w \in Workers : Wake(w)
    \/ \E w \in Workers, fails \in BOOLEAN : Delete410(w, fails)
    \/ \E w \in Workers : Complete(w)

SpecOrder == InitOrder /\ [][NextOrder]_vars

\* what the push service answers in these runs: success, a failure that is
\* retried, and a dead subscription
PoolOutcomes == {"201", "503", "410"}

NextPool ==
    \/ \E id \in {1, 2} : Enqueue(id)
    \/ \E w \in Workers : Dequeue(w)
    \/ \E w \in Workers, outcome \in PoolOutcomes : Send(w, outcome)
    \/ \E w \in Workers : Wake(w)
    \/ \E w \in Workers, fails \in BOOLEAN : Delete410(w, fails)
    \/ \E w \in Workers : Complete(w)

\* the scheduler runs every goroutine that can run: a sender blocked on the
\* full channel gets its turn when there is room again and again, and so
\* does a worker waiting at the channel; a transmission returns, a sleep
\* ends, the store answers the deletion, sendWithRetry returns
FairPool ==
    /\ \A id \in {1, 2} : SF_vars(Enqueue(id))
    /\ \A w \in Workers : SF_vars(Dequeue(w))
    /\ \A w \in Workers : WF_vars(\E outcome \in PoolOutcomes : Send(w, outcome))
    /\ \A w \in Workers : WF_vars(Wake(w))
    /\ \A w \in Workers : WF_vars(\E fails \in BOOLEAN : Delete410(w, fails))
    /\ \A w \in Workers : WF_vars(Complete(w))

\* two triggers to which the store returned the subscribers in the same
\* order, e1 first
Alike ==
    {start \in Concurrent :
        /\ start.targets[1] = start.targets[2]
        /\ start.targets[1][1].Endpoint = <<"e1">>}

\* their tasks and the pool, under that scheduler
InitPool == Triggered("", Alike)

SpecPool == InitPool /\ [][NextPool]_vars /\ FairPool

\* the deployments by their VAPID settings: each of the three present or not
VAPIDDeployments ==
    {[Configured EXCEPT !.VAPIDPublicKey = public, !.VAPIDPrivateKey = private,
                        !.VAPIDSubject = subject] :
        public \in {<<>>, <<"pub">>}, private \in {<<>>, <<"priv">>},
        subject \in {<<>>, <<"mailto:hub">>}}

\* the dispatcher of each of these deployments over a populated store
InitVAPID ==
    /\ config \in VAPIDDeployments
    /\ InitLimiterState(config)
    /\ reqs = [r \in Reqs |-> IdleReq]
    /\ enq = <<>>
    /\ queue = <<>>
    /\ workers = [w \in Workers |-> IdleWorker]
    /\ lastResp = NoLast
    /\ proc = Started
    /\ lastSub = [e \in Endpoints \cup {<<>>} |-> NoPrev]
    /\ rows = Subscribed
    /\ watch = ""
    /\ check = NoCheck

NextVAPID ==
    \/ \E request \in HubTriggers, fails \in BOOLEAN : Trigger(request, fails)
    \/ \E request \in ClientUnsubscribes, fails \in BOOLEAN : Unsubscribe(request, fails)
    \/ \E id \in Enqueuers : Enqueue(id)
    \/ \E w \in Workers : Dequeue(w)
    \/ \E w \in Workers, outcome \in Outcomes : Send(w, outcome)
    \/ \E w \in Workers : Wake(w)
    \/ \E w \in Workers, fails \in BOOLEAN : Delete410(w, fails)
    \/ \E w \in Workers : Complete(w)

SpecVAPID == InitVAPID /\ [][NextVAPID]_vars

\* POST /api/subscribe on its own, every body, the responses observed
InitChecks ==
    /\ config = Configured
    /\ InitLimiterState(config)
    /\ InitHub
    /\ watch = "subscribe"
    /\ check = NoCheck

NextChecks ==
    \/ \E r \in Reqs, request \in SubscribeRequests : SubscribeAllow(r, request)
    \/ \E r \in Reqs, fails \in BOOLEAN : SubscribeExists(r, fails)
    \/ \E r \in Reqs, fails \in BOOLEAN : SubscribeUpsert(r, fails)
    \/ Observe

SpecChecks == InitChecks /\ [][NextChecks]_vars

\* one task from the moment a worker takes it, for every setting
InitRetry ==
    /\ config = Configured
    /\ InitLimiterState(config)
    /\ InitHub
    /\ watch = ""
    /\ check = NoCheck

NextRetry ==
    \/ \E vapid \in BOOLEAN, maxRetries \in RetryLimits, baseMS \in RetryBases :
           Take(vapid, maxRetries, baseMS)
    \/ \E outcome \in Outcomes : Transmit(outcome)

SpecRetry == InitRetry /\ [][NextRetry]_vars

\* the process from a populated store to the end of main()
InitLifecycle ==
    /\ config = Configured
    /\ InitLimiterState(config)
    /\ reqs = [r \in Reqs |-> IdleReq]
    /\ enq = <<>>
    /\ queue = <<>>
    /\ workers = [w \in Workers |-> IdleWorker]
    /\ lastResp = NoLast
    /\ proc = Started
    /\ lastSub = [e \in Endpoints \cup {<<>>} |-> NoPrev]
    /\ rows = Subscribed
    /\ watch = ""
    /\ check = NoCheck

NextLifecycle ==
    \/ \E request \in TriggerRequests, fails \in BOOLEAN : Trigger(request, fails)
    \/ \E request \in TriggerSelfRequests, fails \in BOOLEAN : TriggerSelf(request, fails)
    \/ \E id \in Enqueuers : Enqueue(id)
    \/ \E w \in Workers : Dequeue(w)
    \/ \E w \in Workers, outcome \in Outcomes : Send(w, outcome)
    \/ \E w \in Workers : Wake(w)
    \/ \E w \in Workers, fails \in BOOLEAN : Delete410(w, fails)
    \/ \E w \in Workers : Complete(w)
    \/ Shutdown
    \/ StopClose
    \/ \E w \in Workers : WorkerExit(w)
    \/ StopReturn
    \/ \E id \in Enqueuers : EnqueuePanic(id)

SpecLifecycle == InitLifecycle /\ [][NextLifecycle]_vars

\* the credential checks applied to every configured and presented value
InitCredentials ==
    /\ config \in {[Configured EXCEPT !.HubUICode = code, !.HubSecret = secret] :
                        code \in CredentialInputs, secret \in CredentialInputs}
    /\ InitLimiterState(config)
    /\ InitHub
    /\ watch = ""
    /\ check = NoCheck

NextCredentials ==
    \/ \E code \in CredentialInputs : CheckUICode(code)
    \/ \E secret \in CredentialInputs : CheckHubSecret(secret)

SpecCredentials == InitCredentials /\ [][NextCredentials]_vars

(***************************************************************************)
(* Claims about the rate limiter.                                          *)
(***************************************************************************)
AcceptedOf(key) == {i \in DOMAIN accepted : accepted[i].key = key}

Range(seq) == {seq[i] : i \in DOMAIN seq}

C2_DeniedRecordsNothing ==
    lastAllow.key # "" =>
        LET key == lastAllow.key
            prior == {i \in 1..lastAllow.prior : accepted[i].key = key}
            young == {i \in prior : lastAllow.now - accepted[i].now <= window}
        IN  /\ ~lastAllow.ok =>
                  /\ Len(attempts[key]) <= Len(lastAllow.before)
                  /\ Range(attempts[key]) \subseteq Range(lastAllow.before)
            /\ Cardinality(young) < limit => lastAllow.ok

\* C2 happens: N attempts were accepted, at least one further attempt was
\* denied, and the attempt made more than W after the oldest one is accepted.
C2_Witness ==
    /\ lastAllow.ok
    /\ lastAllow.denied >= 1
    /\ Len(lastAllow.before) = limit
    /\ \A i \in DOMAIN lastAllow.before : lastAllow.now - lastAllow.before[i] > window

(***************************************************************************)
(* Claims about the hub.                                                   *)
(***************************************************************************)
\* the topic set a request asks for: the supplied topic, "default" without one
Asked(topic) == <<IF topic = <<>> THEN <<"default">> ELSE topic>>

\* the body of a response, apart from its status code
BodyOf(resp) == [resp EXCEPT !.code = 0]

C4_DryRunEnqueuesNothing ==
    [][(/\ Quiet
        /\ lastResp'.op = "trigger"
        /\ lastResp'.note.dry
        /\ lastResp'.resp.code \notin {401, 422})
       => /\ lastResp'.note.stmts = 1
          /\ enq' = enq
          /\ queue' = queue
          /\ lastResp'.resp.code = 200 =>
                 lastResp'.resp.targets =
                     Cardinality({row \in rows :
                                     HasTopic(row, Asked(lastResp'.note.topic)[1])})]_vars

\* C4 happens: a dry run was answered with two targets while nothing is
\* enqueued anywhere.
C4_Witness ==
    /\ lastResp.op = "trigger"
    /\ lastResp.note.dry
    /\ lastResp.resp.dry_run
    /\ lastResp.resp.targets = 2
    /\ enq = <<>>
    /\ queue = <<>>

\* C5: a trigger whose X-Hub-Secret header is missing or differs from the
\* configured secret is answered 401 unauthorized, issues no store statement
\* and starts no enqueue.
C5_UnauthorizedTrigger ==
    [][(/\ Quiet
        /\ lastResp'.op = "trigger"
        /\ \/ lastResp'.note.secret = <<>>
           \/ lastResp'.note.secret # config.HubSecret)
       => /\ lastResp'.resp = ErrorResp(401, "unauthorized")
          /\ lastResp'.note.stmts = 0
          /\ enq' = enq
          /\ queue' = queue
          /\ rows' = rows]_vars

\* C5 happens: a trigger with a wrong secret, for a topic that has
\* subscribers, was answered 401.
C5_Witness ==
    /\ lastResp.op = "trigger"
    /\ lastResp.note.secret = <<"bad">>
    /\ config.HubSecret = <<"S">>
    /\ lastResp.resp.code = 401
    /\ \E row \in rows : HasTopic(row, Asked(lastResp.note.topic)[1])

\* C6: ValidateUICode and ValidateHubSecret return true exactly when the
\* configured value is non-empty and the presented value equals it.
C6_FailClosed ==
    check.fn # "" =>
        check.result = (check.expected # <<>> /\ check.actual = check.expected)

\* C6 happens: nothing is configured, the empty value is presented, and the
\* check fails.
C6_Witness ==
    /\ check.fn = "ValidateHubSecret"
    /\ check.expected = <<>>
    /\ check.actual = <<>>
    /\ ~check.result

\* C7: once a subscribe for endpoint E has been answered 200 or 201, the
\* topics stored for E are the normalized topic set of the request, the
\* response carries them, and subscriptions_me(E) answers "active" with them.
C7_SubscribeThenMe ==
    lastResp.op = "subscribe" /\ lastResp.resp.code \in {200, 201} =>
        LET E == lastResp.note.endpoint
            topics == Asked(lastResp.note.topic)
        IN  /\ GetTopicsByEndpoint(rows, E) = [topics |-> topics, found |-> TRUE]
            /\ SubscriptionsMe(rows, E) = [status |-> "active", topics |-> topics]
            /\ lastResp.resp.status = "active"
            /\ lastResp.resp.topics = topics

\* C7 happens: a subscribe without a topic replaced a row subscribed to
\* "news".
C7_Witness ==
    /\ lastResp.op = "subscribe"
    /\ lastResp.resp.code = 200
    /\ lastResp.note.topic = <<>>
    /\ lastResp.note.replaced = <<<<"news">>>>

\* C8: once an unsubscribe for endpoint E has been answered 200, the lookup
\* of E finds nothing and subscriptions_me(E) answers "inactive" with no
\* topics.
C8_UnsubscribeThenMe ==
    lastResp.op = "unsubscribe" /\ lastResp.resp.code = 200 =>
        LET E == lastResp.note.endpoint
        IN  /\ ~GetTopicsByEndpoint(rows, E).found
            /\ SubscriptionsMe(rows, E) = [status |-> "inactive", topics |-> <<>>]

\* C8 happens: an unsubscribe for a subscribed endpoint was answered 200
\* while the other endpoint stays subscribed.
C8_Witness ==
    /\ lastResp.op = "unsubscribe"
    /\ lastResp.resp.code = 200
    /\ lastResp.note.had
    /\ rows # {}

\* C9: the store never holds two rows with the same endpoint.
C9_EndpointUnique ==
    \A a \in rows : \A b \in rows : a.endpoint = b.endpoint => a = b

\* C9 happens: a subscribe that found no row for its endpoint is about to
\* upsert while a concurrent subscribe for another topic has put the
\* endpoint's row in place and a worker is about to delete that row for a 410.
C9_Witness ==
    \E r \in Reqs : \E row \in rows : \E w \in Workers :
        /\ reqs[r].pc = "upsert"
        /\ ~reqs[r].exists
        /\ row.endpoint = reqs[r].sub.Endpoint
        /\ row.topics # reqs[r].sub.Topics
        /\ workers[w].pc = "delete"
        /\ workers[w].task.subscription.Endpoint = row.endpoint

\* C10: a subscribe during which no other request or worker wrote its
\* endpoint's row is answered 201 exactly when the endpoint had no row before
\* it, and 200 otherwise; when it repeats the last successful subscribe of an
\* endpoint that still has its row, it is answered 200 with the body of that
\* subscribe's response.
C10_CreatedFlag ==
    (/\ lastResp.op = "subscribe"
     /\ lastResp.resp.code \in {200, 201}
     /\ ~lastResp.note.overlap)
    => /\ lastResp.resp.code = 201 <=> ~lastResp.note.had
       /\ lastResp.note.had /\ lastResp.note.prev.sub = lastResp.note.sub =>
              /\ lastResp.resp.code = 200
              /\ BodyOf(lastResp.resp) = BodyOf(lastResp.note.prev.resp)

\* C10 happens: the subscribe that created the row, answered 201, was
\* repeated on its own and answered 200.
C10_Witness ==
    /\ lastResp.op = "subscribe"
    /\ lastResp.resp.code = 200
    /\ lastResp.note.had
    /\ ~lastResp.note.overlap
    /\ lastResp.note.prev.sub = lastResp.note.sub
    /\ lastResp.note.prev.resp.code = 201

C13_LastWriteWins ==
    \A row \in rows : ScanSubscription(row) = lastSub[row.endpoint].sub

\* C13 happens: a subscribe committed onto the row that a concurrent
\* subscribe with other keys and another topic had just written.
C13_Witness ==
    /\ lastResp.op = "subscribe"
    /\ lastResp.resp.code \in {200, 201}
    /\ lastResp.note.overlap
    /\ lastResp.note.replaced # <<>>
    /\ lastResp.note.prev.sub.P256DH # lastResp.note.sub.P256DH
    /\ lastResp.note.prev.sub.Auth # lastResp.note.sub.Auth
    /\ lastResp.note.prev.sub.Topics # lastResp.note.sub.Topics
    /\ \E row \in rows : ScanSubscription(row) = lastResp.note.sub

\* the step is the upsert of a successful subscribe for the endpoint
SubscribedNow(endpoint) ==
    \E r \in Reqs :
        /\ reqs[r].pc = "upsert"
        /\ reqs'[r].pc = "idle"
        /\ reqs[r].sub.Endpoint = endpoint
        /\ \E row \in rows' : ScanSubscription(row) = reqs[r].sub

\* the step is a successful unsubscribe of the endpoint
UnsubscribedNow(endpoint) ==
    /\ Quiet
    /\ lastResp'.op = "unsubscribe"
    /\ lastResp'.resp.code = 200
    /\ lastResp'.note.endpoint = endpoint

\* the step is a worker's deletion after a 410 for the endpoint
PrunedNow(endpoint) ==
    \E w \in Workers :
        /\ workers[w].pc = "delete"
        /\ workers'[w].pc = "done"
        /\ workers[w].status = "410"
        /\ workers[w].task.subscription.Endpoint = endpoint

\* C14: a step that changes a row or adds one is the upsert of a subscribe
\* for the row's endpoint, and a step after which an endpoint has lost its
\* row is an unsubscribe of that endpoint or a worker's deletion after a 410
\* for that endpoint; every other step leaves every row as it was.
C14_LifecycleFrame ==
    [][/\ \A new \in rows' \ rows : SubscribedNow(new.endpoint)
       /\ \A old \in rows \ rows' :
              \/ RowExists(rows', old.endpoint) /\ SubscribedNow(old.endpoint)
              \/ /\ ~RowExists(rows', old.endpoint)
                 /\ UnsubscribedNow(old.endpoint) \/ PrunedNow(old.endpoint)]_vars

\* C14 happens: an unsubscribe removed the row of one endpoint while a
\* worker, at the last attempt of a task for the other endpoint, finds that
\* endpoint's row still in place.
C14_Witness ==
    \E w \in Workers :
        /\ workers[w].pc = "send"
        /\ workers[w].attempt = MaxRetries
        /\ RowExists(rows, workers[w].task.subscription.Endpoint)
        /\ lastResp.op = "unsubscribe"
        /\ lastResp.resp.code = 200
        /\ lastResp.note.had
        /\ lastResp.note.endpoint # workers[w].task.subscription.Endpoint

\* C15: a worker about to transmit has made at most max_retries attempts for
\* its task, and one sleeping before a retry fewer than that; so no task gets
\* more than max_retries + 1 attempts, whatever the outcomes.
C15_AttemptBound ==
    \A w \in Workers :
        /\ workers[w].pc = "send" => workers[w].attempt + 1 <= MaxRetries + 1
        /\ workers[w].pc = "backoff" => workers[w].attempt + 1 < MaxRetries + 1

\* C15 happens: after attempts that ended in an error or a 5xx, a worker is
\* at attempt max_retries + 1 of its task.
C15_Witness ==
    \E w \in Workers :
        /\ workers[w].pc = "send"
        /\ workers[w].attempt = MaxRetries
        /\ workers[w].attempt >= 1

\* C16: Stop closes the queue; from then on a task leaves the queue only into
\* the hands of a worker, which runs all its attempts, a worker exits only
\* when it holds no task and the queue is empty, and Stop returns only when
\* the queue is empty and every worker has exited: no task that was queued or
\* in flight when Stop was called is discarded.
C16_StopDrains ==
    [][/\ proc'.phase = "stopped" =>
              /\ proc.phase = "closed"
              /\ queue' = <<>>
              /\ \A w \in Workers : workers'[w].pc = "exited"
       /\ (proc.phase = "closed" /\ queue' # queue) =>
              /\ queue' = Tail(queue)
              /\ \E w \in Workers :
                     /\ workers[w].pc = "idle"
                     /\ workers'[w].pc = "send"
                     /\ workers'[w].task = Head(queue)
       /\ \A w \in Workers :
              (workers'[w].pc = "exited" /\ workers[w].pc # "exited") =>
                  /\ workers[w].pc = "idle"
                  /\ queue = <<>>]_vars

\* C16 happens: Stop has returned, and when it was called one task was in the
\* queue and another in a worker's hands.
C16_Witness ==
    /\ proc.phase = "stopped"
    /\ proc.atStop >= 2

\* C17: in the lifecycle (server shut down, then Stop) no enqueue is attempted
\* on the closed queue, and when shutdown completes every task of every
\* trigger that was answered "queued" has been enqueued and processed.
C17_GracefulShutdown ==
    /\ proc.phase # "crashed"
    /\ proc.phase = "stopped" =>
           /\ \A id \in DOMAIN enq : enq[id] = <<>>
           /\ queue = <<>>
           /\ \A w \in Workers : workers[w].pc = "exited"

\* C18: the queue never holds more than queue_size tasks; a goroutine with a
\* task to enqueue can do so exactly when the queue holds fewer than
\* queue_size tasks, whatever the workers are doing.
C18_QueueBound ==
    /\ Len(queue) <= QueueSize
    /\ \A id \in DOMAIN enq :
           (Quiet /\ enq[id] # <<>>) =>
               (ENABLED Enqueue(id) <=> Len(queue) < QueueSize)

\* C18 happens: while every worker was busy a goroutine has enqueued one of
\* its tasks into the free place of the queue, and now waits with the next
\* one at the full queue.
C18_Witness ==
    /\ Len(queue) = QueueSize
    /\ \A w \in Workers : workers[w].pc # "idle"
    /\ \E id \in DOMAIN enq :
           /\ Len(enq[id]) = 1
           /\ queue[Len(queue)].payload = enq[id][1].payload
           /\ queue[Len(queue)].subscription # enq[id][1].subscription

\* the endpoint, p256dh and auth of the subscription a task was enqueued with
SnapshotOf(item) ==
    [Endpoint |-> item.subscription.Endpoint, P256dh |-> item.subscription.P256DH,
     Auth |-> item.subscription.Auth]

\* the store writes of this step are not worker w's deletion after a 410
StoreWriteByOthers(w) ==
    /\ rows' # rows
    /\ workers[w].pc # "delete"

\* C19: a task stays as it was enqueued while it waits in the queue and while
\* a worker holds it, every attempt is addressed to the endpoint, p256dh and
\* auth of that snapshot, and a subscribe or unsubscribe that writes the store
\* in between changes neither the worker's position nor its attempt count.
C19_SnapshotIsolation ==
    [][/\ \/ queue' = queue
          \/ \E item \in {Head(enq[id]) : id \in {i \in DOMAIN enq : enq[i] # <<>>}} :
                 queue' = Append(queue, item)
          \/ /\ queue # <<>>
             /\ queue' = Tail(queue)
             /\ \E w \in Workers : workers[w].pc = "idle" /\ workers'[w].task = Head(queue)
       /\ \A w \in Workers :
              /\ (workers[w].pc # "idle" /\ workers'[w].pc # "idle") =>
                     workers'[w].task = workers[w].task
              /\ workers'[w].pc \in {"backoff", "delete", "done"} =>
                     workers'[w].used = SnapshotOf(workers'[w].task)
              /\ StoreWriteByOthers(w) =>
                     /\ workers'[w].pc = workers[w].pc
                     /\ workers'[w].attempt = workers[w].attempt
                     /\ workers'[w].task = workers[w].task]_vars

\* C19 happens: a worker is about to retry a task it has already sent once
\* to the key of the snapshot, while the store holds another key for the
\* endpoint, and another worker holds a task whose subscription is gone.
C19_Witness ==
    \E w \in Workers :
        /\ workers[w].pc = "send"
        /\ workers[w].attempt >= 1
        /\ workers[w].used = SnapshotOf(workers[w].task)
        /\ \E row \in rows :
               /\ row.endpoint = workers[w].task.subscription.Endpoint
               /\ row.p256dh # workers[w].task.subscription.P256DH
        /\ \E other \in Workers :
               /\ workers[other].pc = "backoff"
               /\ ~RowExists(rows, workers[other].task.subscription.Endpoint)

\* the rows a trigger for the asked topic is meant for
Subscribers(topic) == {row \in rows : HasTopic(row, Asked(topic)[1])}

\* C20: a live trigger that passed authentication and decoding is answered in
\* the step of its store lookup, 200 "queued" with the number of subscribers
\* of the topic, whatever the queue and the workers hold; all its tasks are
\* then still with the goroutine it started, so that no transmission outcome
\* can enter the response. The handler of trigger or trigger-self that starts
\* a goroutine touches neither the queue nor a worker, and a trigger can be
\* answered in every state, a full queue and busy workers included.
C20_TriggerNeverBlocks ==
    [][/\ (/\ Quiet
           /\ lastResp'.op = "trigger"
           /\ ~lastResp'.note.dry
           /\ lastResp'.resp.code \notin {401, 422, 500})
          => /\ lastResp'.resp.code = 200
             /\ lastResp'.resp.status = "queued"
             /\ lastResp'.resp.targets = Cardinality(Subscribers(lastResp'.note.topic))
             /\ queue' = queue
             /\ workers' = workers
             /\ lastResp'.resp.targets > 0 =>
                    /\ Len(enq') = Len(enq) + 1
                    /\ Len(enq'[Len(enq')]) = lastResp'.resp.targets
       /\ Len(enq') > Len(enq) =>
              /\ queue' = queue
              /\ workers' = workers
              /\ enq'[Len(enq')] # <<>>
       /\ (Quiet /\ Serving /\ enq = <<>>) =>
              /\ \A request \in HubTriggers : ENABLED Trigger(request, FALSE)
              /\ \A request \in ClientTriggers : ENABLED TriggerSelf(request, FALSE)]_vars

\* C20 happens: a live trigger has been answered "queued" for two targets
\* while the queue is full, one worker sleeps in backoff after a 503 and the
\* other is in an attempt.
C20_Witness ==
    /\ lastResp.op = "trigger"
    /\ ~lastResp.note.dry
    /\ lastResp.resp.status = "queued"
    /\ lastResp.resp.targets = 2
    /\ Len(queue) = QueueSize
    /\ \E w \in Workers : workers[w].pc = "backoff" /\ workers[w].status = "503"
    /\ \E w \in Workers : workers[w].pc = "send"
    /\ Len(enq) = 1
    /\ Len(enq[1]) = 2

\* the tasks of the goroutine a step has started, none if it started none
Started_Tasks == IF Len(enq') > Len(enq) THEN enq'[Len(enq')] ELSE <<>>

\* what C21 says of one step
FanOutStep ==
    /\ (/\ Quiet
        /\ lastResp'.op = "trigger"
        /\ ~lastResp'.note.dry
        /\ lastResp'.resp.code = 200)
       => /\ lastResp'.resp.targets = Cardinality(Subscribers(lastResp'.note.topic))
          /\ Len(Started_Tasks) = Cardinality(Subscribers(lastResp'.note.topic))
          /\ {Started_Tasks[i].subscription : i \in DOMAIN Started_Tasks}
                 = {ScanSubscription(row) : row \in Subscribers(lastResp'.note.topic)}
          /\ \A i, j \in DOMAIN Started_Tasks :
                 Started_Tasks[i].payload = Started_Tasks[j].payload
    /\ \A id \in DOMAIN enq :
           (enq'[id] # enq[id]) =>
               (/\ enq[id] # <<>>
                /\ enq'[id] = Tail(enq[id])
                /\ queue' = Append(queue, Head(enq[id])))
    /\ (Len(queue') > Len(queue)) =>
           (\E id \in DOMAIN enq : enq[id] # <<>> /\ enq'[id] = Tail(enq[id]))

\* C21: a live trigger answered 200 returns the number of rows subscribed to
\* the normalized topic at its lookup and hands its goroutine exactly one
\* task per such row, all with the same payload; a goroutine gives up a task
\* only by appending it to the queue, one at a time and in order; and while
\* the dispatcher runs every goroutine that holds tasks ends up with none.
C21_FanOut ==
    /\ [][FanOutStep]_vars
    /\ \A id \in Enqueuers :
           (id \in DOMAIN enq /\ enq[id] # <<>>) ~> (id \in DOMAIN enq /\ enq[id] = <<>>)

\* C21 happens: the goroutine of a live trigger for two subscribers has
\* enqueued both tasks; one waits in the queue, the other is with a worker,
\* they go to different endpoints with the same payload.
C21_Witness ==
    /\ Len(enq) = 1
    /\ enq[1] = <<>>
    /\ Len(queue) = 1
    /\ \E w \in Workers :
           /\ workers[w].pc = "send"
           /\ workers[w].task.subscription.Endpoint # queue[1].subscription.Endpoint
           /\ workers[w].task.payload = queue[1].payload
           /\ workers[w].task.payload.title = <<"T">>

\* the notification of a self test, as the service marshals it
FixedSelfTest ==
    [title |-> <<"Test notification">>, body |-> <<"Your Notification Hub is wired up.">>,
     url |-> <<"/">>]

\* the access code a trigger-self presented is the configured one
RightCode(presented) == config.HubUICode # <<>> /\ presented = config.HubUICode

\* C22: a trigger-self with a wrong or missing access code is answered 401
\* and starts no enqueue; with the right code and a store that answers, it
\* returns 1 and starts the enqueue of exactly one task, the fixed self-test
\* payload for the stored credentials of the endpoint, when the endpoint has a
\* row, and returns 0 and starts nothing when it has none.
C22_TriggerSelf ==
    [][(Quiet /\ lastResp'.op = "trigger-self")
       => /\ lastResp'.resp.code \in {200, 401, 500}
          /\ ~RightCode(lastResp'.note.secret) =>
                 (lastResp'.resp.code = 401 /\ enq' = enq)
          /\ lastResp'.resp.code # 200 => enq' = enq
          /\ (lastResp'.resp.code = 200 /\ RowExists(rows, lastResp'.note.endpoint)) =>
                 /\ lastResp'.resp.targets = 1
                 /\ Len(enq') = Len(enq) + 1
                 /\ \E row \in rows :
                        /\ row.endpoint = lastResp'.note.endpoint
                        /\ enq'[Len(enq')] =
                               <<[subscription |-> [Endpoint |-> row.endpoint,
                                                    P256DH |-> row.p256dh, Auth |-> row.auth,
                                                    Topics |-> row.topics],
                                  payload |-> FixedSelfTest]>>
          /\ (lastResp'.resp.code = 200 /\ ~RowExists(rows, lastResp'.note.endpoint)) =>
                 /\ lastResp'.resp.targets = 0
                 /\ enq' = enq]_vars

\* C22 happens: a self test for e1 was answered with one target, and the
\* goroutine holds the one task with the fixed payload for e1's credentials.
C22_Witness ==
    /\ lastResp.op = "trigger-self"
    /\ lastResp.resp.code = 200
    /\ lastResp.resp.targets = 1
    /\ lastResp.note.endpoint = <<"e1">>
    /\ Len(enq) = 1
    /\ Len(enq[1]) = 1
    /\ enq[1][1].payload = FixedSelfTest
    /\ enq[1][1].subscription.P256DH = <<"k1">>

\* C23: no stored row has an empty topic set or a topic that is empty or
\* made of blanks only, because a subscribe that names no topic is registered
\* under "default" and one that names a blank topic is rejected.
C23_TopicValidation ==
    \A row \in rows :
        /\ row.topics # <<>>
        /\ \A i \in DOMAIN row.topics : TrimSpace(row.topics[i]) # <<>>

\* a subscribe body fills in something of the nested object and something of
\* the flat form
BothShapes(request) ==
    /\ request.Subscription.present
    /\ \/ TrimSpace(request.Subscription.Endpoint) # <<>>
       \/ request.Subscription.Keys # NoKeys
    /\ \/ request.Endpoint # <<>>
       \/ request.P256DH # <<>> \/ request.Auth # <<>>
       \/ request.Keys # NoKeys

\* C24: of a body that supplies both shapes the nested object is the one
\* used: a subscribe is accepted exactly when the nested object is complete,
\* with the nested endpoint, p256dh and auth, and an unsubscribe uses the
\* nested endpoint; nothing is taken from the flat form.
C24_NestedWins ==
    /\ (check.fn = "buildSubscription" /\ BothShapes(check.request)) =>
           LET nested == check.request.Subscription
               complete == /\ TrimSpace(nested.Endpoint) # <<>>
                           /\ nested.Keys.P256DH # <<>>
                           /\ nested.Keys.Auth # <<>>
           IN  /\ check.result.ok = complete
               /\ check.result.ok =>
                      /\ check.result.subscription.Endpoint = TrimSpace(nested.Endpoint)
                      /\ check.result.subscription.P256DH = nested.Keys.P256DH
                      /\ check.result.subscription.Auth = nested.Keys.Auth
    /\ (/\ check.fn = "unsubscribe"
        /\ check.request.Subscription.present
        /\ TrimSpace(check.request.Subscription.Endpoint) # <<>>
        /\ TrimSpace(check.request.Endpoint) # <<>>) =>
           check.result = TrimSpace(check.request.Subscription.Endpoint)

\* C25: a subscribe is answered 200, 201, 401, 422, 429 or 500; one answered
\* 401, 422, 429 or 500 leaves the table as it was, and a row appears or
\* changes only in the step of a subscribe answered 200 or 201.
C25_RejectedWritesNothing ==
    [][/\ (Quiet /\ lastResp'.op = "subscribe") =>
              /\ lastResp'.resp.code \in {200, 201, 401, 422, 429, 500}
              /\ lastResp'.resp.code \in {401, 422, 429, 500} => rows' = rows
       /\ (\E row \in rows' : row \notin rows) =>
              /\ lastResp'.op = "subscribe"
              /\ lastResp'.resp.code \in {200, 201}]_vars

\* C25 happens: the upsert of a subscribe that would have replaced the row of
\* its endpoint failed; it was answered 500 and the row is as before.
C25_Witness ==
    /\ lastResp.op = "subscribe"
    /\ lastResp.resp.code = 500
    /\ lastResp.note.stmts = 2
    /\ \E row \in rows :
           /\ row.endpoint = lastResp.note.endpoint
           /\ ScanSubscription(row) # lastResp.note.sub

\* C26: an unsubscribe that names an endpoint and reaches a store that
\* answers is always answered 200 "inactive", with or without a row and
\* without any credential; it removes the rows of the endpoint and no other,
\* so without a row the store stays as it was, and the store it leaves is
\* one that a second unsubscribe of the endpoint leaves unchanged.
C26_UnsubscribeIdempotent ==
    [][(/\ Quiet
        /\ lastResp'.op = "unsubscribe"
        /\ lastResp'.resp.code \notin {422, 500})
       => LET E == lastResp'.note.endpoint
          IN  /\ lastResp'.resp = [NoResp EXCEPT !.code = 200, !.status = "inactive"]
              /\ rows' = {row \in rows : row.endpoint # E}
              /\ (~\E row \in rows : row.endpoint = E) => rows' = rows
              /\ {row \in rows' : row.endpoint # E} = rows']_vars

\* C26 happens: an unsubscribe of an endpoint without a row was answered 200
\* "inactive" and the other client's row is still there.
C26_Witness ==
    /\ lastResp.op = "unsubscribe"
    /\ lastResp.resp.code = 200
    /\ lastResp.resp.status = "inactive"
    /\ ~lastResp.note.had
    /\ lastResp.note.endpoint \in Endpoints
    /\ \E row \in rows : row.endpoint # lastResp.note.endpoint

\* the outcomes after which sendWithRetry tries again while attempts remain
Retryable == {"error", "503"}

\* worker w ends an attempt in this step
AttemptEnds(w) == workers[w].pc = "send" /\ workers'[w] # workers[w]

\* C27: an attempt that ends in a transport error or a 5xx is followed by a
\* sleep and the next attempt while fewer than max_retries + 1 attempts have
\* been made, and by the end of the task, with no sleep and no deletion,
\* when it was attempt number max_retries + 1; the attempt count grows by one
\* per sleep and in no other way, so a task whose attempts all end this way
\* gets exactly max_retries + 1 of them, and the store is left alone.
C27_RetryableOutcomes ==
    [][\A w \in Workers :
          /\ (AttemptEnds(w) /\ workers'[w].status \in Retryable) =>
                 /\ rows' = rows
                 /\ workers'[w].attempt = workers[w].attempt
                 /\ workers'[w].task = workers[w].task
                 /\ workers'[w].pc = IF workers[w].attempt + 1 < MaxRetries + 1
                                     THEN "backoff" ELSE "idle"
          /\ (workers[w].pc = "backoff" /\ workers'[w] # workers[w]) =>
                 /\ workers'[w].pc = "send"
                 /\ workers'[w].attempt = workers[w].attempt + 1
                 /\ workers'[w].task = workers[w].task
          /\ (workers[w].pc # "idle" /\ workers'[w].attempt # workers[w].attempt) =>
                 workers[w].pc = "backoff"
          /\ workers'[w].pc = "backoff" => workers'[w].status \in Retryable
          /\ workers'[w].pc = "delete" => workers'[w].status \notin Retryable]_vars

\* C27 happens: a worker is back at the channel after attempt number
\* max_retries + 1 of a task ended in a 5xx, another sleeps after a transport
\* error, and the subscriptions of both tasks are still stored.
C27_Witness ==
    \E w, other \in Workers :
        /\ workers[w].pc = "idle"
        /\ workers[w].status = "503"
        /\ workers[w].attempt + 1 = MaxRetries + 1
        /\ workers[w].attempt >= 1
        /\ RowExists(rows, workers[w].task.subscription.Endpoint)
        /\ workers[other].pc = "backoff"
        /\ workers[other].status = "error"
        /\ RowExists(rows, workers[other].task.subscription.Endpoint)

\* the outcomes that end a task at once: a 2xx status, and a status that is
\* neither 2xx, 410 nor 5xx
Terminal == {"201", "404"}

\* C28: an attempt that returns a 2xx status, or a status other than 2xx, 410
\* and 5xx, is the last of its task, whatever its number: the worker goes
\* straight back to the channel, without a sleep, without a deletion and
\* without a write to the store.
C28_TerminalOutcomes ==
    [][\A w \in Workers :
          /\ (AttemptEnds(w) /\ workers'[w].status \in Terminal) =>
                 /\ workers'[w].pc = "idle"
                 /\ workers'[w].attempt = workers[w].attempt
                 /\ rows' = rows
          /\ workers'[w].pc \in {"backoff", "delete", "done"} =>
                 workers'[w].status \notin Terminal]_vars

\* C28 happens: with retries left, one worker is back at the channel after a
\* 404 on the first attempt of its task and the other after a 201, and the
\* subscriptions of both tasks are still stored.
C28_Witness ==
    \E w, other \in Workers :
        /\ workers[w].pc = "idle"
        /\ workers[w].status = "404"
        /\ workers[w].attempt = 0
        /\ workers[w].attempt < MaxRetries
        /\ RowExists(rows, workers[w].task.subscription.Endpoint)
        /\ workers[other].pc = "idle"
        /\ workers[other].status = "201"
        /\ RowExists(rows, workers[other].task.subscription.Endpoint)

\* C29: an attempt that returns 410 is the last of its task and takes the
\* worker to the deletion; the deletion is one DELETE for the task's endpoint
\* (removing its row unless the store fails), it can always run, whatever
\* has become of the request that started the task, and after it the worker
\* goes back to the channel; a worker reaches the deletion in no other way.
C29_GoneDeletesOnce ==
    [][\A w \in Workers :
          LET E == workers[w].task.subscription.Endpoint
          IN  /\ (AttemptEnds(w) /\ workers'[w].status = "410") =>
                     /\ workers'[w].pc = "delete"
                     /\ workers'[w].attempt = workers[w].attempt
                     /\ workers'[w].task = workers[w].task
                     /\ rows' = rows
              /\ (workers'[w].pc = "delete" /\ workers[w].pc # "delete") =>
                     (workers[w].pc = "send" /\ workers'[w].status = "410")
              /\ workers[w].pc = "delete" => ENABLED Delete410(w, FALSE)
              /\ (workers[w].pc = "delete" /\ workers'[w] # workers[w]) =>
                     /\ workers'[w].pc = "done"
                     /\ workers'[w].attempt = workers[w].attempt
                     /\ \/ rows' = {row \in rows : row.endpoint # E}
                        \/ rows' = rows /\ ~workers'[w].deleted
              /\ (workers[w].pc = "done" /\ workers'[w].pc # "done") =>
                     /\ workers'[w].pc = "idle"
                     /\ workers'[w].attempt = workers[w].attempt
                     /\ rows' = rows]_vars

\* C29 happens: a worker is back at the channel after the first attempt of
\* its task returned 410, with retries left; its deletion ran and removed
\* the row of the endpoint, and the other client's row is still there.
C29_Witness ==
    \E w \in Workers :
        /\ workers[w].pc = "idle"
        /\ workers[w].status = "410"
        /\ workers[w].attempt = 0
        /\ workers[w].attempt < MaxRetries
        /\ workers[w].had
        /\ workers[w].deleted
        /\ ~RowExists(rows, workers[w].task.subscription.Endpoint)
        /\ rows # {}

\* base_ms * 2^k milliseconds in nanoseconds, computed in twice the width,
\* where nothing is lost
ExactDelay(baseMS, k) ==
    TimesMillisecond(ShiftLeft(IntOf(baseMS, 2 * IntBits), k))

\* C30: for every base_ms >= 1 and every attempt number k the delay is
\* base_ms * 2^k milliseconds: the duration the code computes is not
\* negative and is exactly that product.
C30_BackoffFormula ==
    (check.fn = "backoffDuration" /\ check.baseMS.m >= 1) =>
        LET exact == ExactDelay(check.baseMS, check.attempt)
            width == IntBits \div 8
        IN  /\ \A i \in 1..width : check.result[i] = exact[i]
            /\ check.result[width] < 128
            /\ \A i \in (width + 1)..(2 * width) : exact[i] = 0

\* a task of the default deployment (RETRY_BASE_BACKOFF_MS 400, MAX_RETRIES 3)
\* whose every attempt so far failed with a retryable outcome
DefaultsAllFailing ==
    /\ check.fn = "sendWithRetry"
    /\ check.vapid
    /\ check.baseMS = 400
    /\ check.maxRetries = 3
    /\ \A i \in DOMAIN check.outcomes : check.outcomes[i] \in Retryable

\* the first n elements of a schedule
Upto(schedule, n) == SubSeq(schedule, 1, n)

\* C31 (as stated): with the defaults and every attempt failing with a
\* retryable outcome, the four attempts start at 0, 0.4 s, 0.8 s and 1.6 s.
C31_ScheduleAsStated ==
    DefaultsAllFailing =>
        check.go.starts = Upto(<<0, 400, 800, 1600>>, Len(check.go.starts))

\* C31 (amended): with the defaults and every attempt failing with a
\* retryable outcome, there are four attempts, they start at 0, 0.4 s, 1.2 s
\* and 2.8 s, and the sleeps between them are 0.4 s, 0.8 s and 1.6 s.
C31_RetrySchedule ==
    DefaultsAllFailing =>
        /\ Len(check.go.starts) = Len(check.outcomes)
        /\ Len(check.go.starts) <= 4
        /\ check.go.starts = Upto(<<0, 400, 1200, 2800>>, Len(check.go.starts))
        /\ check.go.slept = Upto(<<400, 800, 1600>>, Len(check.go.slept))
        /\ Len(check.go.starts) = 4 <=> check.go.pc = "returned"

\* all four attempts of such a task were made
C31_Witness ==
    /\ DefaultsAllFailing
    /\ Len(check.outcomes) = 4
    /\ Len(check.go.starts) = 4
    /\ check.go.pc = "returned"

\* the workers that hold a task: transmitting, sleeping in backoff, deleting
\* or about to return
Busy(pool) == {w \in Workers : pool[w].pc \in {"send", "backoff", "delete", "done"}}

\* the workers that come to hold a task in this step
Takers == {w \in Workers : w \notin Busy(workers) /\ w \in Busy(workers')}

PoolStep ==
    /\ Cardinality(Busy(workers')) <= Cardinality(Workers)
    /\ Len(queue') < Len(queue) =>
          /\ queue' = Tail(queue)
          /\ Cardinality(Takers) = 1
          /\ \A w \in Takers : workers'[w].task = Head(queue)
          /\ \A w \in Workers \ Takers : workers'[w] = workers[w]
    /\ Takers # {} => Len(queue') = Len(queue) - 1
    /\ \A w \in Busy(workers) \cap Busy(workers') : workers'[w].task = workers[w].task

\* C32: at most worker_count tasks are in the hands of workers, and a task
\* leaves the queue exactly when one worker, idle until then, takes it: the
\* first task of the queue goes to that worker and to no other, the other
\* workers are untouched, a worker gets a task in no other way, and a worker
\* keeps its task until it is done with it.
C32_WorkerPool == [][PoolStep]_vars

\* both workers hold a task, each its own
C32_Witness ==
    /\ Busy(workers) = Workers
    /\ workers[1].task # workers[2].task

\* the task of the i-th target the store returned to trigger id
TaskAt(id, i) == [subscription |-> check.targets[id][i], payload |-> check.payloads[id]]

\* the tasks of trigger id in the order of its targets
InStoreOrder(id) == [i \in DOMAIN check.targets[id] |-> TaskAt(id, i)]

\* the tasks of trigger id that are in the queue, in the order of the queue
Queued(id) == SelectSeq(queue, LAMBDA item : item.payload = check.payloads[id])

IsSuffix(tail, seq) ==
    /\ Len(tail) <= Len(seq)
    /\ tail = SubSeq(seq, Len(seq) - Len(tail) + 1, Len(seq))

Incomplete == \E setting \in {"VAPIDPublicKey", "VAPIDPrivateKey", "VAPIDSubject"} :
                  config[setting] = <<>>

DropStep ==
    Incomplete =>
        /\ workers' = [w \in Workers |-> IdleWorker]
        /\ Len(queue') < Len(queue) =>
              /\ queue' = Tail(queue)
              /\ rows' = rows

\* C34: with incomplete VAPID settings every dequeued task is dropped with
\* no transmission attempt, no backoff sleep and no deletion, and the worker
\* goes on to the next task.
C34_IncompleteVAPID == [][DropStep]_vars

\* one setting is missing, both tasks of a trigger were taken off the queue
\* and dropped, and the subscriptions are still stored
C34_Witness ==
    /\ Incomplete
    /\ config.VAPIDSubject # <<>>
    /\ enq # <<>> /\ enq[1] = <<>>
    /\ queue = <<>>
    /\ rows = Subscribed

\* C35: for every key the recorded attempt timestamps are in non-decreasing
\* time order, in every reachable state, concurrent Allow calls for the same
\* key included.
C35_RecordOrder ==
    \A key \in IPs : \A i, j \in DOMAIN attempts[key] :
        i < j => attempts[key][i] <= attempts[key][j]

\* the attempts of an IP that are still inside the window
InWindow(ip) == SelectSeq(attempts[ip], LAMBDA timestamp : timestamp > clock - window)

\* a subscribe request gets past the limiter and the first checks of the handler
Admitted == \E r \in Reqs : reqs[r].pc = "idle" /\ reqs'[r].pc = "exists"

\* a subscribe request is answered by the first checks of the handler
Refused(codes) == Quiet /\ lastResp'.op = "subscribe" /\ lastResp'.resp.code \in codes

ChecksStep ==
    \A ip \in HubIPs :
        /\ Refused({429}) => Len(InWindow(ip)) >= limit /\ attempts'[ip] = InWindow(ip)
        /\ (Refused({401, 422}) \/ Admitted) =>
              /\ Len(InWindow(ip)) < limit
              /\ attempts'[ip] = Append(InWindow(ip), clock)
        /\ (Refused({401, 422, 429}) /\ Len(InWindow(ip)) >= limit) =>
              lastResp'.resp.code = 429

\* C36: the limiter is consulted first: a subscribe request that is answered
\* 401 or 422, like one that goes on to the store, has taken one slot of its
\* IP's window; a request that finds N slots taken is answered 429 whatever
\* its body and its access code, and takes none.
C36_LimiterFirst == [][ChecksStep]_vars

\* the N slots of the window went to requests none of which stored a
\* subscription, and the next request is answered 429
C36_Witness ==
    /\ lastResp.op = "subscribe"
    /\ lastResp.resp.code = 429
    /\ config.HubUICode # <<>>
    /\ Len(attempts["ip1"]) = limit
    /\ rows = {}
    /\ \A e \in Endpoints : lastSub[e] = NoPrev
    /\ \A r \in Reqs : reqs[r].pc = "idle"

\* C37: whatever MAX_RETRIES is, a task taken by a worker of a deployment
\* with complete VAPID settings is not dropped before at least one
\* transmission attempt was made.
C37_AtLeastOneAttempt ==
    (check.fn = "sendWithRetry" /\ check.vapid /\ check.go.pc = "returned") =>
        Len(check.go.starts) >= 1

\* the deletion after a 410 succeeds in this step
Pruned(w) == workers[w].pc = "delete" /\ workers'[w].pc = "done" /\ workers'[w].deleted

GoneStep ==
    \A w \in Workers :
        Pruned(w) =>
            rows' = {row \in rows : row.endpoint # workers[w].task.subscription.Endpoint}

\* C38: when a task for endpoint E receives 410 and the deletion succeeds,
\* every row stored under E is gone, whatever its credentials and whenever
\* it was written, and the rows of other endpoints are as before.
C38_DeleteByEndpointAlone == [][GoneStep]_vars

\* the deletion removed a row that was registered for the task's endpoint
\* with another key than the one the task was enqueued with
C38_Witness ==
    \E w \in Workers :
        /\ workers[w].pc = "done"
        /\ workers[w].deleted
        /\ ~RowExists(rows, workers[w].task.subscription.Endpoint)
        /\ \E row \in workers[w].removed :
               /\ row.endpoint = workers[w].task.subscription.Endpoint
               /\ row.p256dh # workers[w].task.subscription.P256DH

\* a task is with a goroutine that has still to enqueue it
Handed(id, i) == \E k \in DOMAIN enq[id] : enq[id][k] = TaskAt(id, i)

\* a task is in the hands of a worker
Held(id, i) == \E w \in Busy(workers) : workers[w].task = TaskAt(id, i)

\* C39: every task handed to EnqueueMany is eventually taken by a worker,
\* every worker that holds a task eventually is back at the channel, and in
\* the end nothing is left to enqueue, the queue is empty and all workers
\* wait: the pool does not deadlock, also when the queue is full and the
\* enqueuers are blocked.
C39_DispatcherLiveness ==
    /\ \A id \in {1, 2} : \A i \in {1, 2} : Handed(id, i) ~> Held(id, i)
    /\ \A w \in Workers : (w \in Busy(workers)) ~> (workers[w].pc = "idle")
    /\ <>[](/\ \A id \in {1, 2} : enq[id] = <<>>
            /\ queue = <<>>
            /\ Busy(workers) = {})

\* the queue is full, an enqueuer is blocked on it with a task to send, and
\* a worker is asleep between two attempts
C39_Witness ==
    /\ check.fn = "EnqueueMany"
    /\ Len(queue) = Capacity
    /\ \E id \in {1, 2} : enq[id] # <<>>
    /\ \E w \in Workers : workers[w].pc = "backoff"

\* the same task has run to its end in both implementations
BothReturned ==
    /\ check.fn = "sendWithRetry"
    /\ check.vapid
    /\ check.maxRetries >= 0
    /\ check.go.pc = "returned"
    /\ check.ex.pc = "returned"

\* C40: for every max_retries >= 0 and every sequence of outcomes,
\* sendWithRetry and do_send make the same number of attempts, sleep the
\* same time before each retry and take the same decision on deleting the
\* subscription.
C40_SameProtocol ==
    BothReturned =>
        /\ Len(check.go.starts) = Len(check.ex.starts)
        /\ check.go.slept = check.ex.slept
        /\ check.go.deleted = check.ex.deleted

====
